---- MODULE Spec2Model ----
(***************************************************************************)
(* Task orchestration core of the document / knowledge-base handlers:     *)
(*   api/apps/document_app.py  (run, rm)                                   *)
(*   api/apps/kb_app.py        (run_graphrag, run_raptor, run_mindmap,     *)
(*                              unbind_task, knowledge_graph)              *)
(* The record store, the task ledger, the search index, the blob store    *)
(* and the worker pool are collaborators of these handlers; they are      *)
(* modelled by the narrow contracts the handlers use.                     *)
(***************************************************************************)
EXTENDS Integers, Sequences, FiniteSets, TLC

\* ----------------------------------------------------------------- bounds
\* Task ids handed out by get_uuid() in one behaviour.
MaxTasks == 2
\* Document ids carried by one run / rm request.
MaxReqIds == 2
\* Chunks a document may accumulate (the worker adds one per completion).
MaxChunks == 1
\* Progress is stored in steps of 1/ProgressScale: p stands for p/ProgressScale.
ProgressScale == 2
\* Identifiers handed out by get_uuid() in one behaviour of the file handlers.
MaxUuids == 3

\* ------------------------------------------------------------- vocabulary
UNSTART == "0"
RUNNING == "1"
CANCEL == "2"
DONE == "3"
FAIL == "4"
TaskStatusValues == {UNSTART, RUNNING, CANCEL, DONE, FAIL}

NAIVE == "naive"
TABLE == "table"

FS_KNOWLEDGEBASE == "knowledgebase"
FS_LOCAL == ""

DocIds == {"D1", "D2"}
KbIds == {"K1"}
Users == {"u1", "u2"}
NoTenant == ""
\* An unset pointer (the empty task id) and an unset completion timestamp.
NoTaskId == 0
NoTime == 0

PROGRESS_DONE == 1 * ProgressScale
PROGRESS_FAILED == (-1) * ProgressScale

\* The server processes that serve requests side by side, and the position of
\* an aggregate dispatch request each of them is serving.
Procs == {"w1", "w2"}
Idle == [pc |-> "idle", kb_id |-> "", ty |-> "", task_id |-> NoTaskId]
NoFlights == [p \in Procs |-> Idle]

VARIABLES docs, tasks, queue, index, idx_exists, kbs, files, f2d, blobs, next_id, resp,
          kg_hits, kg_resp, inflight

vars == <<docs, tasks, queue, index, idx_exists, kbs, files, f2d, blobs, next_id, resp,
          kg_hits, kg_resp, inflight>>

\* The persisted state the handlers read and write, as one value.
Store ==
    [docs |-> docs, tasks |-> tasks, queue |-> queue, index |-> index,
     idx_exists |-> idx_exists, kbs |-> kbs, files |-> files, f2d |-> f2d,
     blobs |-> blobs, next_id |-> next_id]

Restrict(f, D) == [x \in D |-> f[x]]

\* Occurrences of x in the sequence s.
Count(s, x) == Cardinality({i \in 1..Len(s) : s[i] = x})

\* --------------------------------------------------------------- services
\* DocumentService.get_by_id: (found, row).
DocExists(S, id) == id \in DOMAIN S.docs

\* DocumentService.get_tenant_id: the tenant of the document's knowledge base.
get_tenant_id(S, id) ==
    IF id \in DOMAIN S.docs /\ S.docs[id].kb_id \in DOMAIN S.kbs
    THEN S.kbs[S.docs[id].kb_id].tenant_id
    ELSE NoTenant

\* DocumentService.accessible / accessible4deletion: the document exists and
\* the user belongs to the tenant of its knowledge base.
accessible(S, id, user) == get_tenant_id(S, id) = user

\* DocumentService.update_by_id(id, info): overwrite the fields of info.
update_by_id(S, id, info) ==
    IF id \in DOMAIN S.docs
    THEN [S EXCEPT !.docs[id] =
            [f \in DOMAIN S.docs[id] |->
                IF f \in DOMAIN info THEN info[f] ELSE S.docs[id][f]]]
    ELSE S

\* TaskService.filter_delete([Task.doc_id == id]).
filter_delete_tasks(S, id) ==
    [S EXCEPT !.tasks = {t \in S.tasks : t.doc_id # id}]

\* cancel_all_task_of(id): cancellation deletes the Task rows of the document.
cancel_all_task_of(S, id) ==
    [S EXCEPT !.tasks = {t \in S.tasks : t.doc_id # id}]

\* DocumentService.clear_chunk_num_when_rerun(id): roll the document's
\* contribution back out of the knowledge base's aggregate counters.
clear_chunk_num_when_rerun(S, id) ==
    LET d == S.docs[id] IN
    IF d.kb_id \in DOMAIN S.kbs
    THEN [S EXCEPT !.kbs[d.kb_id].chunk_num = @ - d.chunk_num,
                   !.kbs[d.kb_id].token_num = @ - d.token_num]
    ELSE S

\* docStoreConn.indexExist(index_name(tenant_id), kb_id).
indexExist(S, kb_id) == kb_id \in S.idx_exists

\* docStoreConn.delete({"doc_id": id}, index_name(tenant_id), kb_id).
index_delete_doc(S, id, kb_id) ==
    [S EXCEPT !.index = {e \in S.index : ~(e.doc_id = id /\ e.kb_id = kb_id)}]

\* DocumentService.count_by_kb_id(kb_id, run_status=[DONE], types=[]).
count_by_kb_id(S, kb_id) ==
    Cardinality({d \in DOMAIN S.docs : S.docs[d].kb_id = kb_id /\ S.docs[d].run = DONE})

\* KnowledgebaseService.delete_field_map(kb_id).
delete_field_map(S, kb_id) ==
    IF kb_id \in DOMAIN S.kbs THEN [S EXCEPT !.kbs[kb_id].field_map = FALSE] ELSE S

\* File2DocumentService.get_storage_address(doc_id): the linked file's address
\* when the file was not uploaded into the knowledge base, else the document's.
get_storage_address(S, id) ==
    LET links == {l \in S.f2d : l.document_id = id}
        fs == {f \in S.files : \E l \in links : l.file_id = f.id}
    IN IF fs # {} /\ (\A f \in fs : f.source_type # FS_KNOWLEDGEBASE)
       THEN LET f == CHOOSE f \in fs : TRUE IN [bucket |-> f.parent_id, name |-> f.location]
       ELSE [bucket |-> S.docs[id].kb_id, name |-> S.docs[id].location]

\* queue_tasks(doc, bucket, name, priority): one Task row for the document and
\* one unit on the direct-parse queue.
queue_tasks(S, doc_id, bucket, name) ==
    LET tid == S.next_id + 1 IN
    [S EXCEPT !.next_id = tid,
              !.tasks = @ \cup {[id |-> tid, doc_id |-> doc_id, progress |-> 0, kind |-> "parse",
                                 doc_ids |-> {doc_id}, kb_id |-> S.docs[doc_id].kb_id]},
              !.queue = @ \cup {[q |-> "parse", task_id |-> tid, doc_id |-> doc_id,
                                 bucket |-> bucket, name |-> name]}]

\* queue_dataflow(tenant_id, flow_id, task_id, doc_id): one Task row under the
\* fresh task id and one unit on the pipeline queue.
queue_dataflow(S, doc_id, flow_id) ==
    LET tid == S.next_id + 1 IN
    [S EXCEPT !.next_id = tid,
              !.tasks = @ \cup {[id |-> tid, doc_id |-> doc_id, progress |-> 0, kind |-> "parse",
                                 doc_ids |-> {doc_id}, kb_id |-> S.docs[doc_id].kb_id]},
              !.queue = @ \cup {[q |-> "pipeline", task_id |-> tid, doc_id |-> doc_id,
                                 bucket |-> flow_id, name |-> ""]}]

\* DocumentService.remove_document(doc, tenant_id): delete the document's index
\* entries and the document row.
remove_document(S, id) ==
    LET S1 == index_delete_doc(S, id, S.docs[id].kb_id) IN
    [S1 EXCEPT !.docs = Restrict(S1.docs, DOMAIN S1.docs \ {id})]

\* ------------------------------------------------------------ POST /run
\* The fields the request overwrites (lines 535-539).
RunInfo(req) ==
    IF req.run = RUNNING /\ req.delete
    THEN [run |-> req.run, progress |-> 0, progress_msg |-> "", chunk_num |-> 0, token_num |-> 0]
    ELSE [run |-> req.run, progress |-> 0]

\* Lines 553-554: the aggregate rollback of a destructive rerun of a DONE document.
RunRollback(S, id, req) ==
    IF req.delete /\ req.run = RUNNING /\ S.docs[id].run = DONE
    THEN clear_chunk_num_when_rerun(S, id)
    ELSE S

\* Faulty variant: the document row is overwritten before the rollback reads it.
RunUpdate_ResetFirst(S, id, req) ==
    LET S1 == update_by_id(S, id, RunInfo(req)) IN
    IF req.delete /\ req.run = RUNNING /\ S.docs[id].run = DONE
    THEN clear_chunk_num_when_rerun(S1, id)
    ELSE S1

\* Lines 553-556: the rollback, then the overwrite of the document row.
RunUpdate(S, id, req) == update_by_id(RunRollback(S, id, req), id, RunInfo(req))

\* Faulty variant: with delete, only the index entries are dropped.
RunDelete_TasksKept(S, id, req, doc) ==
    IF req.delete /\ indexExist(S, doc.kb_id) THEN index_delete_doc(S, id, doc.kb_id) ELSE S

\* Lines 557-560: with delete, drop the Task rows and the index entries.
RunDelete(S, id, req, doc) ==
    IF req.delete
    THEN LET S1 == filter_delete_tasks(S, id) IN
         IF indexExist(S1, doc.kb_id) THEN index_delete_doc(S1, id, doc.kb_id) ELSE S1
    ELSE S

\* Lines 567-575: a table document clears the field map of a knowledge base
\* that has no DONE document; the count is cached per request.
RunTable(S, kbmap, doc) ==
    IF doc.parser_id = TABLE /\ doc.kb_id \notin DOMAIN kbmap
    THEN LET count == count_by_kb_id(S, doc.kb_id) IN
         [S |-> IF count <= 0 THEN delete_field_map(S, doc.kb_id) ELSE S,
          kbmap |-> [k \in DOMAIN kbmap \cup {doc.kb_id} |->
                        IF k = doc.kb_id THEN count ELSE kbmap[k]]]
    ELSE [S |-> S, kbmap |-> kbmap]

\* Faulty variant: a document with a pipeline is not enqueued.
RunEnqueue_PipelineSkipped(S, id, doc) ==
    IF doc.pipeline_id # ""
    THEN S
    ELSE LET a == get_storage_address(S, id) IN queue_tasks(S, id, a.bucket, a.name)

\* Lines 576-580: the routing of the dispatch unit.
RunEnqueue(S, id, doc) ==
    IF doc.pipeline_id # ""
    THEN queue_dataflow(S, id, doc.pipeline_id)
    ELSE LET a == get_storage_address(S, id) IN queue_tasks(S, id, a.bucket, a.name)

\* Lines 562-580: the dispatch of a document entering RUNNING. enq records the
\* document row, the document's Task rows and its index entries as stored
\* when the unit is enqueued.
RunDispatch(S, id, req, doc, kbmap, enq) ==
    IF req.run # RUNNING THEN [S |-> S, kbmap |-> kbmap, enq |-> enq]
    ELSE IF doc.parser_id = TABLE /\ doc.kb_id = "" THEN [S |-> S, kbmap |-> kbmap, enq |-> enq]
    ELSE LET t == RunTable(S, kbmap, doc) IN
         [S |-> RunEnqueue(t.S, id, doc), kbmap |-> t.kbmap,
          enq |-> Append(enq, [doc_id |-> id, row |-> t.S.docs[id],
                               tasks |-> {task \in t.S.tasks : task.doc_id = id},
                               index |-> {e \in t.S.index : e.doc_id = id}])]

\* Faulty variant: a DONE document may be cancelled too.
CancelRejected_DoneAllowed(S, id, req) ==
    req.run = CANCEL /\ S.docs[id].run \notin {RUNNING, DONE}

\* Lines 548-552: a cancel of a document that is not RUNNING is refused.
CancelRejected(S, id, req) == req.run = CANCEL /\ S.docs[id].run # RUNNING

\* Faulty variant: a cancel leaves the Task rows of the document alone.
RunCancel_TasksKept(S, id, req) == S

\* Lines 548-550: a cancel of a RUNNING document cancels all its Tasks.
RunCancel(S, id, req) == IF req.run = CANCEL THEN cancel_all_task_of(S, id) ELSE S

\* Faulty variant: the cancel is refused after the delete flag has been served.
RunOne_RefusedLate(S, id, req, kbmap, enq) ==
    IF get_tenant_id(S, id) = NoTenant
    THEN [ret |-> "data_error", msg |-> "Tenant not found!", S |-> S, kbmap |-> kbmap, enq |-> enq]
    ELSE IF ~DocExists(S, id)
    THEN [ret |-> "data_error", msg |-> "Document not found!", S |-> S, kbmap |-> kbmap, enq |-> enq]
    ELSE IF CancelRejected(S, id, req)
    THEN [ret |-> "data_error", msg |-> "Cannot cancel a task that is not in RUNNING status",
          S |-> RunDelete(S, id, req, S.docs[id]), kbmap |-> kbmap, enq |-> enq]
    ELSE LET doc == S.docs[id]
             S1 == RunCancel(S, id, req)
             S2 == RunUpdate(S1, id, req)
             S3 == RunDelete(S2, id, req, doc)
             r == RunDispatch(S3, id, req, doc, kbmap, enq)
         IN [ret |-> "continue", msg |-> "", S |-> r.S, kbmap |-> r.kbmap, enq |-> r.enq]

\* Lines 535-580: one iteration of the loop over req.doc_ids.
RunOne(S, id, req, kbmap, enq) ==
    IF get_tenant_id(S, id) = NoTenant
    THEN [ret |-> "data_error", msg |-> "Tenant not found!", S |-> S, kbmap |-> kbmap, enq |-> enq]
    ELSE IF ~DocExists(S, id)
    THEN [ret |-> "data_error", msg |-> "Document not found!", S |-> S, kbmap |-> kbmap, enq |-> enq]
    ELSE IF CancelRejected(S, id, req)
    THEN [ret |-> "data_error", msg |-> "Cannot cancel a task that is not in RUNNING status",
          S |-> S, kbmap |-> kbmap, enq |-> enq]
    ELSE LET doc == S.docs[id]
             S1 == RunCancel(S, id, req)
             S2 == RunUpdate(S1, id, req)
             S3 == RunDelete(S2, id, req, doc)
             r == RunDispatch(S3, id, req, doc, kbmap, enq)
         IN [ret |-> "continue", msg |-> "", S |-> r.S, kbmap |-> r.kbmap, enq |-> r.enq]

RECURSIVE RunLoop(_, _, _, _, _)
RunLoop(S, req, i, kbmap, enq) ==
    IF i > Len(req.doc_ids)
    THEN [code |-> "ok", msg |-> "", S |-> S, done |-> i - 1, enq |-> enq]
    ELSE LET r == RunOne(S, req.doc_ids[i], req, kbmap, enq) IN
         IF r.ret # "continue"
         THEN [code |-> r.ret, msg |-> r.msg, S |-> r.S, done |-> i - 1, enq |-> r.enq]
         ELSE RunLoop(r.S, req, i + 1, r.kbmap, r.enq)

\* Faulty variant: the access of each id is looked at when the loop reaches it.
RunHandler_CheckedInLoop(S, req) ==
    LET bad == {i \in 1..Len(req.doc_ids) : ~accessible(S, req.doc_ids[i], req.user)} IN
    IF bad = {}
    THEN RunLoop(S, req, 1, <<>>, <<>>)
    ELSE LET k == CHOOSE i \in bad : \A j \in bad : i <= j
             r == RunLoop(S, [req EXCEPT !.doc_ids = SubSeq(@, 1, k - 1)], 1, <<>>, <<>>)
         IN IF r.code # "ok" THEN r
            ELSE [code |-> "auth_error", msg |-> "No authorization.", S |-> r.S, done |-> 0,
                  enq |-> <<>>]

\* Lines 529-584: the handler.
RunHandler(S, req) ==
    IF \E i \in 1..Len(req.doc_ids) : ~accessible(S, req.doc_ids[i], req.user)
    THEN [code |-> "auth_error", msg |-> "No authorization.", S |-> S, done |-> 0, enq |-> <<>>]
    ELSE RunLoop(S, req, 1, <<>>, <<>>)

\* ------------------------------------------------------------- POST /rm
\* FileService.init_knowledgebase_docs(pf_id, user): make sure the user's
\* knowledge-base folder exists.
KbFolder(user) ==
    [id |-> ".knowledgebase", source_type |-> FS_KNOWLEDGEBASE, parent_id |-> user,
     location |-> "", type |-> "folder"]

init_knowledgebase_docs(S, user) == [S EXCEPT !.files = @ \cup {KbFolder(user)}]

\* Faulty variant: the Task rows are left behind.
RmTasks_Kept(S, id) == S

\* Line 494: the Task rows of the document go first.
RmTasks(S, id) == filter_delete_tasks(S, id)

\* Lines 498-504: the linked file record, the linkage, and the blob when a file
\* record was actually deleted.
RmFiles(S, id, addr) ==
    LET links == {l \in S.f2d : l.document_id = id}
        gone == IF links = {} THEN {}
                ELSE LET l0 == CHOOSE l \in links : TRUE IN
                     {f \in S.files : f.source_type = FS_KNOWLEDGEBASE /\ f.id = l0.file_id}
        deleted_file_count == Cardinality(gone)
    IN [S EXCEPT !.files = @ \ gone,
                 !.f2d = @ \ links,
                 !.blobs = IF deleted_file_count > 0 THEN @ \ {addr} ELSE @]

\* Lines 506-514: after a table document, the field map is cleared when the
\* cached count of DONE documents, decremented per deletion, reaches zero.
RmTable(S, kbmap, doc) ==
    IF doc.parser_id = TABLE
    THEN LET base == IF doc.kb_id \in DOMAIN kbmap THEN kbmap[doc.kb_id]
                     ELSE count_by_kb_id(S, doc.kb_id)
             left == base - 1
         IN [S |-> IF left <= 0 THEN delete_field_map(S, doc.kb_id) ELSE S,
             kbmap |-> [k \in DOMAIN kbmap \cup {doc.kb_id} |->
                           IF k = doc.kb_id THEN left ELSE kbmap[k]]]
    ELSE [S |-> S, kbmap |-> kbmap]

\* The ways a store can fail under one id of a delete request: the document
\* removal returning false or raising, the blob store raising.
RmFaults == {"none", "remove_false", "remove_raises", "blob_rm_raises"}

\* The fault met at the i-th id; a request that names none meets none.
RmFault(req, i) == IF "faults" \in DOMAIN req THEN req.faults[i] ELSE "none"

\* Lines 484-516: one iteration of the loop over the ids.  "return" leaves the
\* handler, "raised" is caught by the except clause and the loop goes on.
RmOne(S, id, kbmap, fault) ==
    IF ~DocExists(S, id)
    THEN [ret |-> "data_error", msg |-> "Document not found!", S |-> S, kbmap |-> kbmap]
    ELSE IF get_tenant_id(S, id) = NoTenant
    THEN [ret |-> "data_error", msg |-> "Tenant not found!", S |-> S, kbmap |-> kbmap]
    ELSE LET doc == S.docs[id]
             addr == get_storage_address(S, id)
             S1 == RmTasks(S, id)
             S2 == remove_document(S1, id)
             S3 == RmFiles(S2, id, addr)
             t == RmTable(S3, kbmap, doc)
         IN IF fault = "remove_false"
            THEN [ret |-> "data_error", msg |-> "Database error (Document removal)!",
                  S |-> S1, kbmap |-> kbmap]
            ELSE IF fault = "remove_raises"
            THEN [ret |-> "raised", msg |-> "remove_document", S |-> S1, kbmap |-> kbmap]
            ELSE IF fault = "blob_rm_raises" /\ S3.files # S2.files
            THEN [ret |-> "raised", msg |-> "STORAGE_IMPL.rm",
                  S |-> [S3 EXCEPT !.blobs = S2.blobs], kbmap |-> kbmap]
            ELSE [ret |-> "continue", msg |-> "", S |-> t.S, kbmap |-> t.kbmap]

\* Lines 483-521: the loop; errors holds what the except clause collected.
RECURSIVE RmLoop(_, _, _, _, _)
RmLoop(S, req, i, kbmap, errors) ==
    IF i > Len(req.doc_ids)
    THEN IF errors # <<>>
         THEN [code |-> "server_error", msg |-> "errors", S |-> S, done |-> i - 1,
               enq |-> <<>>, errors |-> errors]
         ELSE [code |-> "ok", msg |-> "", S |-> S, done |-> i - 1, enq |-> <<>>,
               errors |-> errors]
    ELSE LET r == RmOne(S, req.doc_ids[i], kbmap, RmFault(req, i)) IN
         IF r.ret = "raised"
         THEN RmLoop(r.S, req, i + 1, r.kbmap, Append(errors, r.msg))
         ELSE IF r.ret # "continue"
         THEN [code |-> r.ret, msg |-> r.msg, S |-> r.S, done |-> i - 1, enq |-> <<>>,
               errors |-> errors]
         ELSE RmLoop(r.S, req, i + 1, r.kbmap, errors)

\* Lines 470-521: the handler.
RmHandler(S, req) ==
    IF \E i \in 1..Len(req.doc_ids) : ~accessible(S, req.doc_ids[i], req.user)
    THEN [code |-> "auth_error", msg |-> "No authorization.", S |-> S, done |-> 0,
          enq |-> <<>>, errors |-> <<>>]
    ELSE RmLoop(init_knowledgebase_docs(S, req.user), req, 1, <<>>, <<>>)

\* ------------------------------------------------------------ the worker
\* A worker finishes the unit u: the Task row and the document are marked done,
\* the chunks are indexed and counted on the document and its knowledge base.
\* A unit whose Task row or document is gone is dropped.
WorkerFinish(S, u, ok) ==
    LET S0 == [S EXCEPT !.queue = @ \ {u}]
        live == (\E t \in S.tasks : t.id = u.task_id) /\ u.doc_id \in DOMAIN S.docs
    IN IF ~live THEN S0
       ELSE LET d == S.docs[u.doc_id]
                S1 == [S0 EXCEPT !.tasks = {IF t.id = u.task_id
                                             THEN [t EXCEPT !.progress =
                                                     IF ok THEN PROGRESS_DONE ELSE PROGRESS_FAILED]
                                             ELSE t : t \in S0.tasks}]
            IN IF ok
               THEN [S1 EXCEPT
                       !.docs[u.doc_id] = [d EXCEPT !.run = DONE, !.progress = PROGRESS_DONE,
                                                    !.progress_msg = "done",
                                                    !.chunk_num = @ + 1, !.token_num = @ + 2,
                                                    !.process_duration = @ + 1],
                       !.kbs[d.kb_id] = [@ EXCEPT !.chunk_num = @ + 1, !.token_num = @ + 2],
                       !.index = @ \cup {[doc_id |-> u.doc_id, kb_id |-> d.kb_id,
                                          chunk |-> d.chunk_num + 1, available_int |-> 1,
                                          knowledge_graph_kwd |-> ""]},
                       !.idx_exists = @ \cup {d.kb_id}]
               ELSE [S1 EXCEPT
                       !.docs[u.doc_id] = [d EXCEPT !.run = FAIL, !.progress = PROGRESS_FAILED,
                                                    !.progress_msg = "failed"]]

\* ---------------------------------------------------- POST /change_status
\* What the stores do with one document of the request: nothing special, the
\* document update returns a falsy value, the index update returns a falsy
\* value, the index update raises.
StoreFaults == {"none", "doc_update_false", "index_update_false", "index_update_raises"}

\* docStoreConn.update({"doc_id": id}, {"available_int": v}, index_name, kb_id).
index_update_available(S, id, kb_id, available_int) ==
    [S EXCEPT !.index =
        {IF e.doc_id = id /\ e.kb_id = kb_id
         THEN [e EXCEPT !.available_int = available_int]
         ELSE e : e \in S.index}]

StatusInt(status) == IF status = "1" THEN 1 ELSE 0

\* Faulty variant: disabling a document takes its entries out of the index.
StatusIndexed_EntriesDropped(S, doc_id, status, fault) ==
    IF fault = "index_update_raises"
    THEN [entry |-> [error |-> "Internal server error"], S |-> S]
    ELSE IF fault = "index_update_false"
    THEN [entry |-> [status |-> status], S |-> S]
    ELSE [entry |-> [status |-> status],
          S |-> IF status = "0" THEN index_delete_doc(S, doc_id, S.docs[doc_id].kb_id)
                ELSE index_update_available(S, doc_id, S.docs[doc_id].kb_id, 1)]

\* Lines 455-460: the index update of one document and the entry that is left
\* in the result map: line 458 writes the status entry over whatever line 457
\* wrote; an exception is caught at line 459.
StatusIndexed(S, doc_id, status, fault) ==
    IF fault = "index_update_raises"
    THEN [entry |-> [error |-> "Internal server error"], S |-> S]
    ELSE IF fault = "index_update_false"
    THEN [entry |-> [status |-> status], S |-> S]
    ELSE [entry |-> [status |-> status],
          S |-> index_update_available(S, doc_id, S.docs[doc_id].kb_id, StatusInt(status))]

\* Lines 438-460: one iteration of the loop over the ids.
StatusOne(S, doc_id, status, user, fault) ==
    IF ~accessible(S, doc_id, user)
    THEN [entry |-> [error |-> "No authorization."], S |-> S]
    ELSE IF ~DocExists(S, doc_id)
    THEN [entry |-> [error |-> "No authorization."], S |-> S]
    ELSE IF S.docs[doc_id].kb_id \notin DOMAIN S.kbs
    THEN [entry |-> [error |-> "Can't find this knowledgebase!"], S |-> S]
    ELSE IF fault = "doc_update_false"
    THEN [entry |-> [error |-> "Database error (Document update)!"], S |-> S]
    ELSE StatusIndexed(update_by_id(S, doc_id, [status |-> status]), doc_id, status, fault)

RECURSIVE StatusLoop(_, _, _, _)
StatusLoop(S, req, i, result) ==
    IF i > Len(req.doc_ids)
    THEN [code |-> "ok", msg |-> "", data |-> result, S |-> S]
    ELSE LET id == req.doc_ids[i]
             r == StatusOne(S, id, req.status, req.user, req.faults[id])
         IN StatusLoop(r.S, req, i + 1,
                       [d \in DOMAIN result \cup {id} |->
                           IF d = id THEN r.entry ELSE result[d]])

\* Lines 425-462: the handler.
change_status(S, req) ==
    IF req.status \notin {"0", "1"}
    THEN [code |-> "argument_error", msg |-> "Status must be either 0 or 1!",
          data |-> <<>>, S |-> S]
    ELSE StatusLoop(S, req, 1, <<>>)

\* ---------------------------------------------------- POST /change_parser
\* DocumentService.increment_chunk_num(doc_id, kb_id, token_num, chunk_num,
\* duration): add the deltas to the document's counters and to the counters of
\* its knowledge base.
increment_chunk_num(S, id, kb_id, token_num, chunk_num, duration) ==
    LET S1 == IF id \in DOMAIN S.docs
              THEN [S EXCEPT !.docs[id].token_num = @ + token_num,
                             !.docs[id].chunk_num = @ + chunk_num,
                             !.docs[id].process_duration = @ + duration]
              ELSE S
    IN IF kb_id \in DOMAIN S1.kbs
       THEN [S1 EXCEPT !.kbs[kb_id].token_num = @ + token_num,
                       !.kbs[kb_id].chunk_num = @ + chunk_num]
       ELSE S1

\* Lines 660-675: reset_doc. doc is the row read at line 656; whatever
\* reset_doc returns is dropped by its callers.
reset_doc(S, doc_id, doc, req) ==
    LET S1 == update_by_id(S, doc_id, [parser_id |-> req.parser_id, progress |-> 0,
                                       progress_msg |-> "", run |-> UNSTART])
    IN IF doc.token_num > 0
       THEN LET S2 == increment_chunk_num(S1, doc_id, doc.kb_id, doc.token_num * (-1),
                                          doc.chunk_num * (-1), doc.process_duration * (-1))
            IN IF get_tenant_id(S2, doc_id) = NoTenant THEN S2
               ELSE IF indexExist(S2, doc.kb_id) THEN index_delete_doc(S2, doc_id, doc.kb_id)
               ELSE S2
       ELSE S1

\* Lines 649-700: the handler, for a request without parser_config and a
\* document that is neither visual nor a presentation.
change_parser(S, req) ==
    IF ~accessible(S, req.doc_id, req.user)
    THEN [code |-> "auth_error", msg |-> "No authorization.", S |-> S]
    ELSE IF ~DocExists(S, req.doc_id)
    THEN [code |-> "data_error", msg |-> "Document not found!", S |-> S]
    ELSE LET doc == S.docs[req.doc_id] IN
         IF req.pipeline_id # ""
         THEN IF doc.pipeline_id = req.pipeline_id
              THEN [code |-> "ok", msg |-> "", S |-> S]
              ELSE [code |-> "ok", msg |-> "",
                    S |-> reset_doc(update_by_id(S, req.doc_id,
                                                 [pipeline_id |-> req.pipeline_id]),
                                    req.doc_id, doc, req)]
         ELSE IF doc.parser_id = req.parser_id
         THEN [code |-> "ok", msg |-> "", S |-> S]
         ELSE [code |-> "ok", msg |-> "", S |-> reset_doc(S, req.doc_id, doc, req)]

\* ------------------------------------ file2document: POST /convert, /rm
\* DocumentService.insert: a fresh row, nothing parsed yet.
NewDoc(parser, pipeline, loc) ==
    [kb_id |-> "K1", run |-> UNSTART, progress |-> 0, progress_msg |-> "",
     chunk_num |-> 0, token_num |-> 0, process_duration |-> 0,
     parser_id |-> parser, pipeline_id |-> pipeline, location |-> loc, status |-> "1"]

\* get_uuid() as a document id: the n-th identifier handed out.
DocName == <<"N1", "N2", "N3", "N4">>

\* File2DocumentService.get_by_file_id / delete_by_file_id.
get_by_file_id(S, file_id) == {l \in S.f2d : l.file_id = file_id}

delete_by_file_id(S, file_id) == [S EXCEPT !.f2d = {l \in @ : l.file_id # file_id}]

\* FileService.get_all_innermost_file_ids(folder_id, []): the files below the
\* folder (the folders of the model are one level deep).
get_all_innermost_file_ids(S, folder_id) ==
    {f.id : f \in {g \in S.files : g.parent_id = folder_id /\ g.type # "folder"}}

\* file2document_app.py lines 133-144 and 198-208: the documents linked to a
\* file are removed one by one; a missing document or tenant ends the request.
RECURSIVE RemoveLinked(_, _)
RemoveLinked(S, informs) ==
    IF informs = {}
    THEN [ret |-> "continue", msg |-> "", S |-> S]
    ELSE LET inform == CHOOSE l \in informs : TRUE
             doc_id == inform.document_id
         IN IF ~DocExists(S, doc_id)
            THEN [ret |-> "data_error", msg |-> "Document not found!", S |-> S]
            ELSE IF get_tenant_id(S, doc_id) = NoTenant
            THEN [ret |-> "data_error", msg |-> "Tenant not found!", S |-> S]
            ELSE RemoveLinked(remove_document(S, doc_id), informs \ {inform})

\* Lines 148-172: one new document and one linkage per knowledge base named.
\* FileService.get_parser gives a plain file the parser of the knowledge base.
RECURSIVE ConvertInsert(_, _, _, _)
ConvertInsert(S, file_id, kb_ids, i) ==
    IF i > Len(kb_ids)
    THEN [ret |-> "continue", msg |-> "", S |-> S]
    ELSE IF kb_ids[i] \notin DOMAIN S.kbs
    THEN [ret |-> "data_error", msg |-> "Can't find this knowledgebase!", S |-> S]
    ELSE IF \A f \in S.files : f.id # file_id
    THEN [ret |-> "data_error", msg |-> "Can't find this file!", S |-> S]
    ELSE LET file == CHOOSE f \in S.files : f.id = file_id
             id == DocName[S.next_id + 1]
             row == [NewDoc(NAIVE, "", file.location) EXCEPT !.kb_id = kb_ids[i]]
             S1 == [S EXCEPT !.docs = [d \in DOMAIN S.docs \cup {id} |->
                                          IF d = id THEN row ELSE S.docs[d]],
                             !.f2d = @ \cup {[file_id |-> file_id, document_id |-> id]},
                             !.next_id = @ + 1]
         IN ConvertInsert(S1, file_id, kb_ids, i + 1)

\* Lines 131-172: the files of one requested id, each unlinked and linked anew.
RECURSIVE ConvertIds(_, _, _)
ConvertIds(S, ids, kb_ids) ==
    IF ids = {}
    THEN [ret |-> "continue", msg |-> "", S |-> S]
    ELSE LET id == CHOOSE f \in ids : TRUE
             r == RemoveLinked(S, get_by_file_id(S, id))
         IN IF r.ret # "continue" THEN r
            ELSE LET q == ConvertInsert(delete_by_file_id(r.S, id), id, kb_ids, 1) IN
                 IF q.ret # "continue" THEN q
                 ELSE ConvertIds(q.S, ids \ {id}, kb_ids)

\* Lines 123-175: the loop over the requested files; an id without a file
\* record raises at line 125 and the request ends with a server error.
RECURSIVE ConvertLoop(_, _, _)
ConvertLoop(S, req, i) ==
    IF i > Len(req.file_ids)
    THEN [code |-> "ok", msg |-> "", S |-> S]
    ELSE IF \A f \in S.files : f.id # req.file_ids[i]
    THEN [code |-> "server_error", msg |-> "KeyError", S |-> S]
    ELSE LET file == CHOOSE f \in S.files : f.id = req.file_ids[i]
             ids == IF file.type = "folder"
                    THEN get_all_innermost_file_ids(S, file.id)
                    ELSE {file.id}
             r == ConvertIds(S, ids, req.kb_ids)
         IN IF r.ret # "continue"
            THEN [code |-> r.ret, msg |-> r.msg, S |-> r.S]
            ELSE ConvertLoop(r.S, req, i + 1)

\* file2document_app.py lines 112-179.
convert(S, req) == ConvertLoop(S, req, 1)

\* file2document_app.py lines 192-208: the linkages of the file go first, then
\* the documents they named.
RECURSIVE F2dRmLoop(_, _, _)
F2dRmLoop(S, req, i) ==
    IF i > Len(req.file_ids)
    THEN [code |-> "ok", msg |-> "", S |-> S]
    ELSE LET informs == get_by_file_id(S, req.file_ids[i]) IN
         IF informs = {}
         THEN [code |-> "data_error", msg |-> "Inform not found!", S |-> S]
         ELSE LET r == RemoveLinked(delete_by_file_id(S, req.file_ids[i]), informs) IN
              IF r.ret # "continue"
              THEN [code |-> r.ret, msg |-> r.msg, S |-> r.S]
              ELSE F2dRmLoop(r.S, req, i + 1)

\* file2document_app.py lines 182-213.
f2d_rm(S, req) ==
    IF req.file_ids = <<>>
    THEN [code |-> "argument_error", msg |-> "Lack of Files ID", S |-> S]
    ELSE F2dRmLoop(S, req, 1)

\* ----------------------------------------------------- kb_app: POST /rm
\* kb_app.py lines 283-290: one document of the knowledge base goes, with the
\* file record uploaded for it and its linkages.
KbRmDoc(S, id) ==
    LET S1 == remove_document(S, id)
        links == {l \in S1.f2d : l.document_id = id}
        gone == IF links = {} THEN {}
                ELSE LET l0 == CHOOSE l \in links : TRUE IN
                     {f \in S1.files : f.source_type = FS_KNOWLEDGEBASE /\ f.id = l0.file_id}
    IN [S1 EXCEPT !.files = @ \ gone, !.f2d = @ \ links]

RECURSIVE KbRmDocs(_, _)
KbRmDocs(S, ids) ==
    IF ids = {} THEN S
    ELSE LET id == CHOOSE d \in ids : TRUE IN KbRmDocs(KbRmDoc(S, id), ids \ {id})

\* kb_app.py lines 264-303.  The knowledge bases of the model were created by
\* their tenant, so the owner query of line 276 finds what the access check
\* found.  Then the row, the index partition and the bucket go.
kb_rm(S, kb_id, user) ==
    IF ~(kb_id \in DOMAIN S.kbs /\ S.kbs[kb_id].tenant_id = user)
    THEN [code |-> "auth_error", msg |-> "No authorization.", S |-> S]
    ELSE LET S1 == KbRmDocs(S, {d \in DOMAIN S.docs : S.docs[d].kb_id = kb_id}) IN
         [code |-> "ok", msg |-> "",
          S |-> [S1 EXCEPT !.kbs = Restrict(@, DOMAIN @ \ {kb_id}),
                           !.index = {e \in @ : e.kb_id # kb_id},
                           !.idx_exists = @ \ {kb_id},
                           !.blobs = {b \in @ : b.bucket # kb_id}]]

\* ------------------------------------------------- document specification
SeqsUpTo(A, n) == UNION {[1..k -> A] : k \in 1..n}

\* The last request served: the operation, the response code and its message.
NoResp == [op |-> "none", code |-> "", msg |-> "", cases |-> {}, task_id |-> NoTaskId]

\* No graph view has been requested yet.
NoView == [code |-> "none", data |-> [graph |-> <<>>, mind_map |-> <<>>]]

NewKb ==
    [tenant_id |-> "u1", chunk_num |-> 0, token_num |-> 0, field_map |-> TRUE,
     graphrag_task_id |-> NoTaskId, raptor_task_id |-> NoTaskId, mindmap_task_id |-> NoTaskId,
     graphrag_task_finish_at |-> NoTime, raptor_task_finish_at |-> NoTime,
     mindmap_task_finish_at |-> NoTime]

\* D1, a table document, was uploaded into K1 (its file record belongs to the
\* knowledge base); D2, with a pipeline, was converted from a file of the
\* user's own folder.
InitRows ==
    /\ docs = [d \in DocIds |-> IF d = "D1" THEN NewDoc(TABLE, "", "D1")
                                   ELSE NewDoc(NAIVE, "flow1", "F2")]
    /\ tasks = {}
    /\ queue = {}
    /\ index = {}
    /\ kbs = [k \in KbIds |-> NewKb]
    /\ files = {KbFolder("u1"),
                [id |-> "F1", source_type |-> FS_KNOWLEDGEBASE, parent_id |-> ".knowledgebase",
                 location |-> "D1", type |-> "doc"],
                [id |-> "F2", source_type |-> FS_LOCAL, parent_id |-> "home_u1",
                 location |-> "F2", type |-> "doc"]}
    /\ f2d = {[file_id |-> "F1", document_id |-> "D1"], [file_id |-> "F2", document_id |-> "D2"]}
    /\ blobs = {[bucket |-> "K1", name |-> "D1"], [bucket |-> "home_u1", name |-> "F2"]}
    /\ next_id = 0
    /\ resp = NoResp
    /\ kg_resp = NoView
    /\ inflight = NoFlights

\* No index partition and no graph record yet.
InitDoc ==
    /\ InitRows
    /\ idx_exists = {}
    /\ kg_hits = <<>>

Commit(S) ==
    /\ docs' = S.docs
    /\ tasks' = S.tasks
    /\ queue' = S.queue
    /\ index' = S.index
    /\ idx_exists' = S.idx_exists
    /\ kbs' = S.kbs
    /\ files' = S.files
    /\ f2d' = S.f2d
    /\ blobs' = S.blobs
    /\ next_id' = S.next_id

\* What the request just served did, for the cases the properties are about.
RunCases(S, req, r) ==
    LET ids == {req.doc_ids[i] : i \in 1..r.done} IN
    {c \in {"cancel_running", "rerun_done", "dispatch_each", "rerun_dispatch",
             "cancel_with_tasks", "rerun_with_tasks", "state_written",
             "cancel_refused_delete", "refused_with_state"} :
        /\ c \notin {"cancel_refused_delete", "refused_with_state"} => r.code = "ok"
        /\ c = "refused_with_state" =>
              /\ r.code = "auth_error"
              /\ \E i \in 1..Len(req.doc_ids) :
                    /\ accessible(S, req.doc_ids[i], req.user)
                    /\ \E t \in S.tasks : t.doc_id = req.doc_ids[i]
        /\ c = "cancel_refused_delete" =>
              /\ r.code = "data_error" /\ req.run = CANCEL /\ req.delete
              /\ r.done < Len(req.doc_ids)
              /\ DocExists(S, req.doc_ids[r.done + 1])
              /\ \E t \in S.tasks : t.doc_id = req.doc_ids[r.done + 1]
              /\ \E e \in S.index : e.doc_id = req.doc_ids[r.done + 1]
        /\ c = "cancel_with_tasks" =>
              /\ req.run = CANCEL /\ ~req.delete
              /\ \E d \in ids : \E t \in S.tasks : t.doc_id = d /\ t.progress = 0
        /\ c = "rerun_with_tasks" =>
              /\ req.run = RUNNING /\ req.delete
              /\ \E d \in ids : /\ \E t \in S.tasks : t.doc_id = d
                                 /\ \E e \in S.index : e.doc_id = d
        /\ c = "state_written" =>
              \E d \in ids : S.docs[d].run # req.run
        /\ c = "cancel_running" =>
              req.run = CANCEL /\ \E d \in ids : S.docs[d].run = RUNNING
        /\ c = "rerun_done" =>
              /\ req.run = RUNNING /\ req.delete
              /\ \E d \in ids : S.docs[d].run = DONE /\ S.docs[d].chunk_num > 0
        /\ c = "dispatch_each" =>
              req.run = RUNNING /\ Cardinality(ids) = MaxReqIds
        /\ c = "rerun_dispatch" =>
              /\ req.run = RUNNING /\ req.delete
              /\ \E d \in ids : S.docs[d].run = DONE /\ S.docs[d].process_duration > 0}

RmCases(S, req, r) ==
    LET ids == {req.doc_ids[i] : i \in 1..r.done} IN
    {c \in {"rm_tasks_index", "refused_with_state"} :
        /\ c = "rm_tasks_index" =>
              /\ r.code = "ok"
              /\ \E d \in ids : /\ \E t \in S.tasks : t.doc_id = d
                                 /\ \E e \in S.index : e.doc_id = d
        /\ c = "refused_with_state" =>
              /\ r.code = "auth_error"
              /\ \E i \in 1..Len(req.doc_ids) :
                    /\ accessible(S, req.doc_ids[i], req.user)
                    /\ \E t \in S.tasks : t.doc_id = req.doc_ids[i]}

Answer(op, r, cases) ==
    resp' = [op |-> op, code |-> r.code, msg |-> r.msg, cases |-> cases, task_id |-> NoTaskId]

\* A request that fails the access check returns before its run and delete
\* fields are read (lines 529-531): one shape of it is drawn.
RunShapes(ids, user) ==
    IF \A i \in 1..Len(ids) : accessible(Store, ids[i], user)
    THEN TaskStatusValues \X BOOLEAN
    ELSE {<<RUNNING, FALSE>>}

Run ==
    \E ids \in SeqsUpTo(DocIds, MaxReqIds), user \in Users :
      \E shape \in RunShapes(ids, user) :
        LET req == [doc_ids |-> ids, run |-> shape[1], delete |-> shape[2], user |-> user] IN
        \E r \in {RunHandler(Store, req)} :
           /\ r.S.next_id <= MaxTasks
           /\ Commit(r.S)
           /\ Answer("run", r, RunCases(Store, req, r))
           /\ UNCHANGED <<kg_hits, kg_resp, inflight>>

Rm ==
    \E ids \in SeqsUpTo(DocIds, MaxReqIds), user \in Users :
        LET req == [doc_ids |-> ids, user |-> user] IN
        \E r \in {RmHandler(Store, req)} :
           /\ Commit(r.S)
           /\ Answer("rm", r, RmCases(Store, req, r))
           /\ UNCHANGED <<kg_hits, kg_resp, inflight>>

Worker ==
    \E u \in queue, ok \in BOOLEAN :
        /\ (ok /\ u.doc_id \in DOMAIN docs) => docs[u.doc_id].chunk_num < MaxChunks
        /\ \E S \in {WorkerFinish(Store, u, ok)} : Commit(S)
        /\ resp' = [NoResp EXCEPT !.op = "worker"]
        /\ UNCHANGED <<kg_hits, kg_resp, inflight>>

NextDoc == Run \/ Rm \/ Worker

SpecDoc == InitDoc /\ [][NextDoc]_vars

\* The worker finishes the unit of Task tid.
WorkerOn(tid) ==
    \E u \in queue, ok \in BOOLEAN :
        /\ u.task_id = tid
        /\ (ok /\ u.doc_id \in DOMAIN docs) => docs[u.doc_id].chunk_num < MaxChunks
        /\ \E S \in {WorkerFinish(Store, u, ok)} : Commit(S)
        /\ resp' = [NoResp EXCEPT !.op = "worker"]
        /\ UNCHANGED <<kg_hits, kg_resp, inflight>>

\* The documents' life with a worker pool that eventually finishes every unit
\* that is enqueued; requests come when they come.
SpecLive == InitDoc /\ [][NextDoc]_vars /\ \A tid \in 1..MaxTasks : WF_vars(WorkerOn(tid))

\* The documents' life with parser changes: run, worker, change_parser.
ParserReqs ==
    [doc_id : DocIds, parser_id : {NAIVE, TABLE}, pipeline_id : {"", "flow1"}, user : Users]

\* A parser change that went through to reset_doc.
ParserCases(S, req, r) ==
    {c \in {"parser_reset", "parser_reset_counted"} :
        /\ r.code = "ok" /\ r.S # S
        /\ c = "parser_reset_counted" => S.docs[req.doc_id].token_num > 0}

ChangeParser ==
    \E req \in ParserReqs :
      \E r \in {change_parser(Store, req)} :
        /\ Commit(r.S)
        /\ Answer("change_parser", r, ParserCases(Store, req, r))
        /\ UNCHANGED <<kg_hits, kg_resp, inflight>>

\* A run request of the owner for one document.
RunOneDoc ==
    \E d \in DocIds, run \in TaskStatusValues, delete \in BOOLEAN :
        LET req == [doc_ids |-> <<d>>, run |-> run, delete |-> delete, user |-> "u1"] IN
        \E r \in {RunHandler(Store, req)} :
           /\ r.S.next_id <= MaxTasks
           /\ Commit(r.S)
           /\ Answer("run", r, RunCases(Store, req, r))
           /\ UNCHANGED <<kg_hits, kg_resp, inflight>>

InitReset ==
    /\ InitDoc

NextReset == RunOneDoc \/ Worker \/ ChangeParser

SpecReset == InitReset /\ [][NextReset]_vars

\* The documents' life with availability toggles: run, worker, change_status.
\* The ids of a request may name a document that does not exist; a store
\* fault is drawn for the requests that get as far as the stores.
StatusIds == DocIds \cup {"D0"}

NoFaults == [d \in StatusIds |-> "none"]

StatusReqs ==
    {req \in [doc_ids : SeqsUpTo(StatusIds, MaxReqIds), status : {"0", "1", "2"},
              user : Users,
              faults : {NoFaults} \cup
                       {[NoFaults EXCEPT ![d] = f] : d \in DocIds, f \in StoreFaults}] :
        /\ \A d \in StatusIds :
              req.faults[d] # "none" => \E i \in 1..Len(req.doc_ids) : req.doc_ids[i] = d
        /\ req.faults # NoFaults => (req.user = "u1" /\ req.status \in {"0", "1"})
        /\ req.user # "u1" => req.status = "1"}

\* What the toggle just served met.
StatusCases(S, req, r) ==
    LET ids == {req.doc_ids[i] : i \in 1..Len(req.doc_ids)} IN
    {c \in {"flag_flipped", "index_fault_then_more", "fault_then_more"} :
        /\ r.code = "ok"
        /\ c = "flag_flipped" =>
              \E d \in ids \cap DOMAIN S.docs :
                 /\ S.docs[d].status # req.status /\ S.docs[d].run = DONE
                 /\ "status" \in DOMAIN r.data[d]
                 /\ req.faults[d] = "none"
                 /\ \E e \in S.index : e.doc_id = d
                 /\ \E t \in S.tasks : t.doc_id = d
        /\ c = "index_fault_then_more" =>
              /\ Len(req.doc_ids) = MaxReqIds
              /\ req.faults[req.doc_ids[1]] = "index_update_raises"
              /\ req.doc_ids[1] # req.doc_ids[MaxReqIds]
              /\ "status" \in DOMAIN r.data[req.doc_ids[MaxReqIds]]
        /\ c = "fault_then_more" =>
              /\ Len(req.doc_ids) = MaxReqIds
              /\ req.faults[req.doc_ids[1]] = "doc_update_false"
              /\ req.doc_ids[1] # req.doc_ids[MaxReqIds]
              /\ "status" \in DOMAIN r.data[req.doc_ids[MaxReqIds]]}

ChangeStatus ==
    \E req \in StatusReqs :
      \E r \in {change_status(Store, req)} :
        /\ Commit(r.S)
        /\ Answer("change_status", r, StatusCases(Store, req, r))
        /\ UNCHANGED <<kg_hits, kg_resp, inflight>>

\* A run request of the owner that starts, or starts over, one document.
RunStart ==
    \E d \in DocIds, delete \in BOOLEAN :
        LET req == [doc_ids |-> <<d>>, run |-> RUNNING, delete |-> delete, user |-> "u1"] IN
        \E r \in {RunHandler(Store, req)} :
           /\ r.S.next_id <= MaxTasks
           /\ Commit(r.S)
           /\ Answer("run", r, {})
           /\ UNCHANGED <<kg_hits, kg_resp, inflight>>

InitStatus ==
    /\ InitDoc

NextStatus == RunStart \/ Worker \/ ChangeStatus

SpecStatus == InitStatus /\ [][NextStatus]_vars

\* ------------------------------------------------- file specification
\* Documents come and go through the file manager and the knowledge base:
\* convert, the two linkage-level deletions, and the document deletion with
\* the faults its stores can show.
FileReqIds == {"F1", "F2", "F0", ".knowledgebase"}

\* Store faults, at most one per request, met at the id it is listed under.
RmFaultSeqs(n) == {fs \in [1..n -> RmFaults] : Cardinality({i \in 1..n : fs[i] # "none"}) <= 1}

RmBulkReqs(D) ==
    {q \in [doc_ids : SeqsUpTo(D, MaxReqIds), user : {"u1"},
            faults : SeqsUpTo(RmFaults, MaxReqIds)] :
        /\ Len(q.faults) = Len(q.doc_ids)
        /\ q.faults \in RmFaultSeqs(Len(q.doc_ids))}

RmBulk ==
    \E req \in RmBulkReqs(DOMAIN docs) :
        \E r \in {RmHandler(Store, req)} :
           /\ Commit(r.S)
           /\ Answer("rm", r, {c \in {"blob_removed", "stopped_early"} :
                                  /\ c = "blob_removed" => r.S.blobs # blobs
                                  /\ c = "stopped_early" => r.done < Len(req.doc_ids)})
           /\ UNCHANGED <<kg_hits, kg_resp, inflight>>

Convert ==
    \E f \in FileReqIds, kb_ids \in {<<"K1">>, <<"K1", "K1">>, <<"K0">>} :
        /\ next_id + Len(kb_ids) <= MaxUuids
        /\ \E r \in {convert(Store, [file_ids |-> <<f>>, kb_ids |-> kb_ids])} :
           /\ r.S.next_id <= MaxUuids
           /\ Commit(r.S)
           /\ Answer("convert", r, {})
           /\ UNCHANGED <<kg_hits, kg_resp, inflight>>

LinkRm ==
    \E f \in FileReqIds :
        \E r \in {f2d_rm(Store, [file_ids |-> <<f>>])} :
           /\ Commit(r.S)
           /\ Answer("f2d_rm", r, {})
           /\ UNCHANGED <<kg_hits, kg_resp, inflight>>

KbRm ==
    \E kb_id \in KbIds, user \in Users :
        \E r \in {kb_rm(Store, kb_id, user)} :
           /\ Commit(r.S)
           /\ Answer("kb_rm", r, {})
           /\ UNCHANGED <<kg_hits, kg_resp, inflight>>

\* A run request for one document of the store, by its owner.
RunAny ==
    \E d \in DOMAIN docs :
        LET req == [doc_ids |-> <<d>>, run |-> RUNNING, delete |-> FALSE, user |-> "u1"] IN
        \E r \in {RunHandler(Store, req)} :
           /\ r.S.next_id <= MaxUuids
           /\ Commit(r.S)
           /\ Answer("run", r, {})
           /\ UNCHANGED <<kg_hits, kg_resp, inflight>>

InitFiles ==
    /\ InitDoc

NextFiles == RunAny \/ Worker \/ RmBulk \/ Convert \/ LinkRm \/ KbRm

SpecFiles == InitFiles /\ [][NextFiles]_vars

\* ------------------------------------------------- document properties
RunReqs ==
    [doc_ids : SeqsUpTo(DocIds, MaxReqIds), run : TaskStatusValues,
     delete : BOOLEAN, user : Users]

RmReqs == [doc_ids : SeqsUpTo(DocIds, MaxReqIds), user : Users]

Authorized(S, req) ==
    \A i \in 1..Len(req.doc_ids) : accessible(S, req.doc_ids[i], req.user)

\* The ids a handler got through before it returned.
Processed(req, r) == {req.doc_ids[i] : i \in 1..r.done}

Terminal == {PROGRESS_DONE, PROGRESS_FAILED}

RECURSIVE SumOver(_, _)
SumOver(f, D) ==
    IF D = {} THEN 0
    ELSE LET x == CHOOSE x \in D : TRUE IN f[x] + SumOver(f, D \ {x})

CancelConflict == "Cannot cancel a task that is not in RUNNING status"

\* C1: in every reachable state, a cancel request (run = CANCEL) by an
\* authorized caller for one document is answered with success and leaves the
\* document CANCELLED if and only if the document is RUNNING; in every other
\* run-state it is answered with the state-conflict error and the document is
\* left as it was. No run request of any shape makes a document CANCELLED
\* unless it is a cancel and the document was RUNNING.
C1_CancelIffRunning ==
    /\ \A d \in DOMAIN docs, delete \in BOOLEAN, user \in Users :
          LET req == [doc_ids |-> <<d>>, run |-> CANCEL, delete |-> delete, user |-> user]
              r == RunHandler(Store, req)
          IN Authorized(Store, req) =>
                IF docs[d].run = RUNNING
                THEN r.code = "ok" /\ r.S.docs[d].run = CANCEL
                ELSE /\ r.code = "data_error" /\ r.msg = CancelConflict
                     /\ r.S.docs[d] = docs[d]
    /\ \A req \in RunReqs :
          LET r == RunHandler(Store, req) IN
          \A d \in DOMAIN docs :
              (r.S.docs[d].run = CANCEL /\ docs[d].run # CANCEL)
                  => (req.run = CANCEL /\ docs[d].run = RUNNING)

C1_Witness ==
    /\ resp.op = "run" /\ resp.code = "ok" /\ "cancel_running" \in resp.cases
    /\ \E d \in DOMAIN docs : docs[d].run = CANCEL

\* C4 (as claimed): at any time at most one Task row of a document is
\* outstanding, that is, has a progress that is neither done nor failed.
C4_AtMostOneInFlight ==
    \A d \in DocIds :
        Cardinality({t \in tasks : t.doc_id = d /\ t.progress \notin Terminal}) <= 1

\* C5: in every reachable state, a run request with run = RUNNING by an
\* authorized caller is answered with success, and for every document id of
\* the request the document's progress is 0 afterwards and the units the
\* request adds to the dispatch queues that are addressed to the document are
\* exactly as many as the id occurs in the request (one per occurrence).
C5_OneUnitPerDocument ==
    \A req \in RunReqs :
        (Authorized(Store, req) /\ req.run = RUNNING) =>
            LET r == RunHandler(Store, req) IN
            /\ r.code = "ok" /\ r.done = Len(req.doc_ids)
            /\ queue \subseteq r.S.queue
            /\ \A d \in DocIds :
                  /\ Cardinality({u \in r.S.queue \ queue : u.doc_id = d})
                        = Count(req.doc_ids, d)
                  /\ Count(req.doc_ids, d) > 0 => r.S.docs[d].progress = 0

C5_Witness ==
    /\ resp.op = "run" /\ resp.code = "ok" /\ "dispatch_each" \in resp.cases
    /\ \A d \in DocIds : d \in DOMAIN docs /\ docs[d].progress = 0
                         /\ \E u \in queue : u.doc_id = d

\* C6: in every reachable state, after the delete (rm) handler has processed a
\* document id, no Task row references that document and no index entry is
\* keyed by it; a delete answered with success has processed all its ids.
C6_DeleteLeavesNoTaskNoIndex ==
    \A req \in RmReqs :
        Authorized(Store, req) =>
            LET r == RmHandler(Store, req) IN
            /\ r.code = "ok" => r.done = Len(req.doc_ids)
            /\ \A d \in Processed(req, r) :
                  /\ d \notin DOMAIN r.S.docs
                  /\ \A t \in r.S.tasks : t.doc_id # d
                  /\ \A e \in r.S.index : e.doc_id # d

C6_Witness ==
    /\ resp.op = "rm" /\ resp.code = "ok" /\ "rm_tasks_index" \in resp.cases
    /\ \E d \in DocIds : /\ d \notin DOMAIN docs
                         /\ \A t \in tasks : t.doc_id # d
                         /\ \A e \in index : e.doc_id # d

\* C7 (as claimed): deleting again a document id that was already deleted is
\* answered with success and changes nothing.
C7_SecondDeleteNoOp ==
    \A d \in DocIds \ DOMAIN docs :
        LET r == RmHandler(Store, [doc_ids |-> <<d>>, user |-> "u1"]) IN
        r.code = "ok" /\ r.S = Store

\* C8 (as claimed): when a DONE document is rerun with run = RUNNING and
\* delete = true, its stored chunk_num, token_num and process_duration are
\* zero and its progress_msg is empty at the moment the unit is enqueued.
C8_CountersZeroAtEnqueue ==
    \A d \in DOMAIN docs, user \in Users :
        LET req == [doc_ids |-> <<d>>, run |-> RUNNING, delete |-> TRUE, user |-> user]
            r == RunHandler(Store, req)
        IN (Authorized(Store, req) /\ docs[d].run = DONE) =>
              /\ Len(r.enq) = 1
              /\ \A i \in 1..Len(r.enq) :
                    /\ r.enq[i].row.chunk_num = 0
                    /\ r.enq[i].row.token_num = 0
                    /\ r.enq[i].row.process_duration = 0
                    /\ r.enq[i].row.progress_msg = ""

\* C9: in every reachable state, a run request with run = RUNNING and
\* delete = true by an authorized caller lowers each knowledge base's chunk and
\* token counters by exactly the chunk_num and token_num that the request's
\* DONE documents held before the request, and leaves those documents' own
\* counters at zero: the rollback reads the counters before they are reset.
C9_RollbackExact ==
    \A req \in RunReqs :
        (Authorized(Store, req) /\ req.run = RUNNING /\ req.delete) =>
            LET r == RunHandler(Store, req)
                ids == {req.doc_ids[i] : i \in 1..Len(req.doc_ids)}
                rerun == {d \in ids : docs[d].run = DONE}
            IN /\ \A k \in DOMAIN kbs :
                    LET mine == {d \in rerun : docs[d].kb_id = k} IN
                    /\ r.S.kbs[k].chunk_num =
                          kbs[k].chunk_num - SumOver([d \in mine |-> docs[d].chunk_num], mine)
                    /\ r.S.kbs[k].token_num =
                          kbs[k].token_num - SumOver([d \in mine |-> docs[d].token_num], mine)
               /\ \A d \in rerun : r.S.docs[d].chunk_num = 0 /\ r.S.docs[d].token_num = 0

C9_Witness ==
    /\ resp.op = "run" /\ resp.code = "ok" /\ "rerun_done" \in resp.cases
    /\ \E d \in DOMAIN docs : docs[d].run = RUNNING /\ docs[d].chunk_num = 0
                              /\ docs[d].process_duration > 0

\* ------------------------------------------- aggregate dispatch (kb_app)
GRAPH_RAPTOR_FAKE_DOC_ID == "graph_raptor_x"

AggKinds == {"graphrag", "raptor", "mindmap"}

\* PipelineTaskType, as the unbind request names the kinds.
GRAPH_RAG == "GraphRAG"
RAPTOR == "RAPTOR"
MINDMAP == "Mindmap"

PointerField(ty) ==
    CASE ty = "graphrag" -> "graphrag_task_id"
      [] ty = "raptor" -> "raptor_task_id"
      [] ty = "mindmap" -> "mindmap_task_id"

FinishField(ty) ==
    CASE ty = "graphrag" -> "graphrag_task_finish_at"
      [] ty = "raptor" -> "raptor_task_finish_at"
      [] ty = "mindmap" -> "mindmap_task_finish_at"

\* TaskService.get_by_id(task_id): the rows under that id (none: not found).
TaskById(S, task_id) == {t \in S.tasks : t.id = task_id}

\* Faulty variant: a failed Task counts as still running.
InProgress_FailedCounts(task) == task.progress \notin {PROGRESS_DONE}

\* Lines 608, 678, 748: task.progress not in [-1, 1].
InProgress(task) == task.progress \notin {PROGRESS_FAILED, PROGRESS_DONE}

\* Faulty variant: a running Task of any kind of the knowledge base blocks
\* the dispatch.
AggConflict_AnyKind(S, kb_id, ty) ==
    \E other \in AggKinds :
        LET task_id == S.kbs[kb_id][PointerField(other)] IN
        /\ task_id # NoTaskId
        /\ \E task \in TaskById(S, task_id) : InProgress(task)

\* Lines 602-609: the single-flight check on the stored pointer.
AggConflict(S, kb_id, ty) ==
    LET task_id == S.kbs[kb_id][PointerField(ty)] IN
    /\ task_id # NoTaskId
    /\ \E task \in TaskById(S, task_id) : InProgress(task)

\* DocumentService.get_by_kb_id(kb_id, ...): all documents of the knowledge base.
get_by_kb_id(S, kb_id) == {d \in DOMAIN S.docs : S.docs[d].kb_id = kb_id}

\* queue_raptor_o_graphrag_tasks(doc, ty, priority, fake_doc_id, doc_ids): one
\* Task addressed at the synthetic document id, carrying the document ids.
queue_raptor_o_graphrag_tasks(S, kb_id, ty, doc_ids) ==
    LET tid == S.next_id + 1 IN
    [S EXCEPT !.next_id = tid,
              !.tasks = @ \cup {[id |-> tid, doc_id |-> GRAPH_RAPTOR_FAKE_DOC_ID, progress |-> 0,
                                 kind |-> ty, doc_ids |-> doc_ids, kb_id |-> kb_id]}]

\* KnowledgebaseService.update_by_id(kb_id, fields); saved tells whether the
\* store took the write.
kb_update_by_id(S, kb_id, fields, saved) ==
    IF saved /\ kb_id \in DOMAIN S.kbs
    THEN [S EXCEPT !.kbs[kb_id] =
            [f \in DOMAIN S.kbs[kb_id] |->
                IF f \in DOMAIN fields THEN fields[f] ELSE S.kbs[kb_id][f]]]
    ELSE S

\* Faulty variant: a Task whose id could not be saved is withdrawn and the
\* dispatch fails.
AggCreate_RolledBack(S, kb_id, ty, saved) ==
    LET S1 == queue_raptor_o_graphrag_tasks(S, kb_id, ty, get_by_kb_id(S, kb_id))
        fields == [f \in {PointerField(ty)} |-> S1.next_id]
    IN IF saved
       THEN [code |-> "ok", msg |-> "", task_id |-> S1.next_id,
             S |-> kb_update_by_id(S1, kb_id, fields, saved)]
       ELSE [code |-> "server_error", msg |-> "Cannot save task id", task_id |-> NoTaskId,
             S |-> [S1 EXCEPT !.tasks = S.tasks]]

\* Faulty variant: the pointer is written before the Task is created, with
\* the id handed out last.
AggCreate_OldIdWritten(S, kb_id, ty, saved) ==
    LET fields == [f \in {PointerField(ty)} |-> S.next_id]
        S1 == queue_raptor_o_graphrag_tasks(kb_update_by_id(S, kb_id, fields, saved),
                                            kb_id, ty, get_by_kb_id(S, kb_id))
    IN [code |-> "ok", msg |-> "", task_id |-> S1.next_id, S |-> S1]

\* Lines 628-633: create the Task, then save its id in the pointer; a write
\* that is not saved is only logged.
AggCreate(S, kb_id, ty, saved) ==
    LET S1 == queue_raptor_o_graphrag_tasks(S, kb_id, ty, get_by_kb_id(S, kb_id))
        fields == [f \in {PointerField(ty)} |-> S1.next_id]
    IN [code |-> "ok", msg |-> "", task_id |-> S1.next_id,
        S |-> kb_update_by_id(S1, kb_id, fields, saved)]

\* Faulty variant: a knowledge base without documents is dispatched too.
AggDispatch_NoDocsAccepted(S, kb_id, ty, saved) ==
    IF kb_id = ""
    THEN [code |-> "data_error", msg |-> "Lack of KB ID", task_id |-> NoTaskId, S |-> S]
    ELSE IF kb_id \notin DOMAIN S.kbs
    THEN [code |-> "data_error", msg |-> "Invalid Knowledgebase ID", task_id |-> NoTaskId, S |-> S]
    ELSE IF AggConflict(S, kb_id, ty)
    THEN [code |-> "data_error", msg |-> "in progress",
          task_id |-> S.kbs[kb_id][PointerField(ty)], S |-> S]
    ELSE AggCreate(S, kb_id, ty, saved)

\* The body the three dispatch handlers share.
AggDispatch(S, kb_id, ty, saved) ==
    IF kb_id = ""
    THEN [code |-> "data_error", msg |-> "Lack of KB ID", task_id |-> NoTaskId, S |-> S]
    ELSE IF kb_id \notin DOMAIN S.kbs
    THEN [code |-> "data_error", msg |-> "Invalid Knowledgebase ID", task_id |-> NoTaskId, S |-> S]
    ELSE IF AggConflict(S, kb_id, ty)
    THEN [code |-> "data_error", msg |-> "in progress",
          task_id |-> S.kbs[kb_id][PointerField(ty)], S |-> S]
    ELSE IF get_by_kb_id(S, kb_id) = {}
    THEN [code |-> "data_error", msg |-> "No documents in Knowledgebase",
          task_id |-> NoTaskId, S |-> S]
    ELSE AggCreate(S, kb_id, ty, saved)

run_graphrag(S, kb_id, saved) == AggDispatch(S, kb_id, "graphrag", saved)
run_raptor(S, kb_id, saved) == AggDispatch(S, kb_id, "raptor", saved)
run_mindmap(S, kb_id, saved) == AggDispatch(S, kb_id, "mindmap", saved)

RunAggregate(S, kb_id, ty, saved) ==
    CASE ty = "graphrag" -> run_graphrag(S, kb_id, saved)
      [] ty = "raptor" -> run_raptor(S, kb_id, saved)
      [] ty = "mindmap" -> run_mindmap(S, kb_id, saved)

\* Faulty variant: a Task row that is gone reads as no pointer.
TraceMissing_AsEmpty(S, ty) == [code |-> "ok", msg |-> "", data |-> <<>>, S |-> S]

\* Lines 652-654, 722-724, 792-794: the pointer names no Task row.
TraceMissing(S, ty) ==
    [code |-> "data_error", msg |-> "Task Not Found or Error Occurred", data |-> <<>>, S |-> S]

\* The body the three trace handlers share; data is the result's payload,
\* <<>> being the empty object.
AggTrace(S, kb_id, ty) ==
    IF kb_id = ""
    THEN [code |-> "data_error", msg |-> "Lack of KB ID", data |-> <<>>, S |-> S]
    ELSE IF kb_id \notin DOMAIN S.kbs
    THEN [code |-> "data_error", msg |-> "Invalid Knowledgebase ID", data |-> <<>>, S |-> S]
    ELSE LET task_id == S.kbs[kb_id][PointerField(ty)] IN
         IF task_id = NoTaskId
         THEN [code |-> "ok", msg |-> "", data |-> <<>>, S |-> S]
         ELSE IF TaskById(S, task_id) = {}
         THEN TraceMissing(S, ty)
         ELSE [code |-> "ok", msg |-> "", S |-> S,
               data |-> CHOOSE task \in TaskById(S, task_id) : TRUE]

trace_graphrag(S, kb_id) == AggTrace(S, kb_id, "graphrag")
trace_raptor(S, kb_id) == AggTrace(S, kb_id, "raptor")
trace_mindmap(S, kb_id) == AggTrace(S, kb_id, "mindmap")

TraceAggregate(S, kb_id, ty) ==
    CASE ty = "graphrag" -> trace_graphrag(S, kb_id)
      [] ty = "raptor" -> trace_raptor(S, kb_id)
      [] ty = "mindmap" -> trace_mindmap(S, kb_id)

\* Faulty variant: the unbind of GraphRAG takes the mind-map records away too.
index_delete_graph_MindMapToo(S, kb_id) ==
    [S EXCEPT !.index =
        {e \in S.index : ~(e.kb_id = kb_id /\ e.knowledge_graph_kwd \in
                                {"graph", "subgraph", "entity", "relation", "mind_map"})}]

\* Line 815: docStoreConn.delete({"knowledge_graph_kwd": [...]}, index, kb_id).
index_delete_graph(S, kb_id) ==
    [S EXCEPT !.index =
        {e \in S.index : ~(e.kb_id = kb_id /\ e.knowledge_graph_kwd \in
                                {"graph", "subgraph", "entity", "relation"})}]

UnbindKind(pipeline_task_type) ==
    CASE pipeline_task_type = GRAPH_RAG -> "graphrag"
      [] pipeline_task_type = RAPTOR -> "raptor"
      [] pipeline_task_type = MINDMAP -> "mindmap"

\* Lines 805-831: DELETE /unbind_task.
delete_kb_task(S, kb_id, pipeline_task_type) ==
    IF kb_id = ""
    THEN [code |-> "data_error", msg |-> "Lack of KB ID", task_id |-> NoTaskId, S |-> S]
    ELSE IF kb_id \notin DOMAIN S.kbs
    THEN [code |-> "ok", msg |-> "", task_id |-> NoTaskId, S |-> S]
    ELSE IF pipeline_task_type \notin {GRAPH_RAG, RAPTOR, MINDMAP}
    THEN [code |-> "data_error", msg |-> "Invalid task type", task_id |-> NoTaskId, S |-> S]
    ELSE LET ty == UnbindKind(pipeline_task_type)
             S1 == IF pipeline_task_type = GRAPH_RAG THEN index_delete_graph(S, kb_id) ELSE S
             fields == [f \in {PointerField(ty), FinishField(ty)} |->
                           IF f = PointerField(ty) THEN NoTaskId ELSE NoTime]
         IN [code |-> "ok", msg |-> "", task_id |-> NoTaskId,
             S |-> kb_update_by_id(S1, kb_id, fields, TRUE)]

\* The worker reports progress p on the aggregate Task t; on completion it
\* stamps the knowledge base and writes the artifacts of the kind to the index.
AggArtifacts(t) ==
    LET kwds == CASE t.kind = "graphrag" -> {"graph", "entity"}
                  [] t.kind = "raptor" -> {""}
                  [] t.kind = "mindmap" -> {"mind_map"}
    IN {[doc_id |-> GRAPH_RAPTOR_FAKE_DOC_ID, kb_id |-> t.kb_id, chunk |-> 0,
         available_int |-> 1, knowledge_graph_kwd |-> k] : k \in kwds}

WorkerReport(S, t, p) ==
    LET S1 == [S EXCEPT !.tasks = (@ \ {t}) \cup {[t EXCEPT !.progress = p]}] IN
    IF p = PROGRESS_DONE /\ t.kb_id \in DOMAIN S.kbs
    THEN [S1 EXCEPT !.kbs[t.kb_id][FinishField(t.kind)] = 1,
                    !.index = @ \cup AggArtifacts(t),
                    !.idx_exists = @ \cup {t.kb_id}]
    ELSE S1

\* ---------------------------------------------- aggregate specification
KbRequestIds == KbIds \cup {"K0"}

\* What the dispatch just served met, for the cases the properties are about.
AggCases(S, kb_id, ty, saved, r) ==
    {c \in {"rejected_in_progress", "accepted_after_terminal", "kb_missing", "no_documents",
            "busy_without_documents", "pointer_not_saved", "pointer_moved"} :
        CASE c = "kb_missing" -> kb_id \notin DOMAIN S.kbs /\ r.code # "ok"
          [] c = "rejected_in_progress" ->
                kb_id \in DOMAIN S.kbs /\ r.code = "data_error" /\ r.msg = "in progress"
          [] c = "accepted_after_terminal" ->
                /\ kb_id \in DOMAIN S.kbs /\ r.code = "ok"
                /\ \E t \in TaskById(S, S.kbs[kb_id][PointerField(ty)]) : ~InProgress(t)
          [] c = "no_documents" ->
                /\ kb_id \in DOMAIN S.kbs /\ get_by_kb_id(S, kb_id) = {}
                /\ r.msg = "No documents in Knowledgebase"
          [] c = "busy_without_documents" ->
                /\ kb_id \in DOMAIN S.kbs /\ get_by_kb_id(S, kb_id) = {}
                /\ r.msg = "in progress"
          [] c = "pointer_not_saved" -> r.code = "ok" /\ ~saved
          [] c = "pointer_moved" ->
                /\ kb_id \in DOMAIN S.kbs /\ r.code = "ok" /\ saved
                /\ S.kbs[kb_id][PointerField(ty)] # NoTaskId}

\* What the trace just served met.
TraceCases(S, kb_id, ty, r) ==
    {c \in {"trace_unset", "trace_status", "trace_missing"} :
        /\ kb_id \in DOMAIN S.kbs
        /\ CASE c = "trace_unset" -> S.kbs[kb_id][PointerField(ty)] = NoTaskId
             [] c = "trace_status" ->
                   \E t \in TaskById(S, S.kbs[kb_id][PointerField(ty)]) : InProgress(t)
             [] c = "trace_missing" ->
                   /\ S.kbs[kb_id][PointerField(ty)] # NoTaskId
                   /\ TaskById(S, S.kbs[kb_id][PointerField(ty)]) = {}}

\* What the unbind just served met: the kind had a pointer and a completion
\* timestamp, and the index held records of the knowledge base.
UnbindCases(S, kb_id, pipeline_task_type, r) ==
    {c \in {"unbind_graph_artifacts", "unbind_keeps_artifacts"} :
        /\ kb_id \in DOMAIN S.kbs /\ r.code = "ok"
        /\ pipeline_task_type \in {GRAPH_RAG, RAPTOR, MINDMAP}
        /\ S.kbs[kb_id][PointerField(UnbindKind(pipeline_task_type))] # NoTaskId
        /\ S.kbs[kb_id][FinishField(UnbindKind(pipeline_task_type))] # NoTime
        /\ CASE c = "unbind_graph_artifacts" ->
                   /\ pipeline_task_type = GRAPH_RAG
                   /\ \E e \in S.index : e.kb_id = kb_id /\ e.knowledge_graph_kwd = "graph"
             [] c = "unbind_keeps_artifacts" ->
                   /\ pipeline_task_type # GRAPH_RAG
                   /\ \E e \in S.index : e.kb_id = kb_id /\ e.knowledge_graph_kwd = "graph"}

AnswerKb(op, r, cases) ==
    resp' = [op |-> op, code |-> r.code, msg |-> r.msg, cases |-> cases, task_id |-> r.task_id]

InitKb ==
    /\ InitDoc

\* saved: whether the store takes the pointer write of lines 630, 700, 770.
Dispatch ==
    \E kb_id \in KbRequestIds, ty \in AggKinds, saved \in BOOLEAN :
      \E r \in {RunAggregate(Store, kb_id, ty, saved)} :
        /\ r.S.next_id <= MaxTasks
        /\ Commit(r.S)
        /\ AnswerKb("dispatch", r, AggCases(Store, kb_id, ty, saved, r))
        /\ UNCHANGED <<kg_hits, kg_resp, inflight>>

Unbind ==
    \E kb_id \in KbRequestIds, pipeline_task_type \in {GRAPH_RAG, RAPTOR, MINDMAP, "Parse"} :
      \E r \in {delete_kb_task(Store, kb_id, pipeline_task_type)} :
        /\ Commit(r.S)
        /\ AnswerKb("unbind", r, UnbindCases(Store, kb_id, pipeline_task_type, r))
        /\ UNCHANGED <<kg_hits, kg_resp, inflight>>

Trace ==
    \E kb_id \in KbRequestIds, ty \in AggKinds :
      \E r \in {TraceAggregate(Store, kb_id, ty)} :
        /\ Commit(r.S)
        /\ resp' = [op |-> "trace", code |-> r.code, msg |-> r.msg,
                    cases |-> TraceCases(Store, kb_id, ty, r),
                    task_id |-> IF DOMAIN r.data = {} THEN NoTaskId ELSE r.data.id]
        /\ UNCHANGED <<kg_hits, kg_resp, inflight>>

WorkerAgg ==
    \E t \in tasks, p \in (1..ProgressScale) \cup {PROGRESS_FAILED} :
        /\ t.doc_id = GRAPH_RAPTOR_FAKE_DOC_ID
        /\ InProgress(t)
        /\ p = PROGRESS_FAILED \/ p > t.progress
        /\ \E S \in {WorkerReport(Store, t, p)} : Commit(S)
        /\ resp' = [NoResp EXCEPT !.op = "worker"]
        /\ UNCHANGED <<kg_hits, kg_resp, inflight>>

\* The ledger's bulk deletion takes a finished aggregate Task row away.
TaskPurged ==
    \E t \in tasks :
        /\ t.doc_id = GRAPH_RAPTOR_FAKE_DOC_ID
        /\ ~InProgress(t)
        /\ tasks' = tasks \ {t}
        /\ resp' = [NoResp EXCEPT !.op = "purge"]
        /\ UNCHANGED <<docs, queue, index, idx_exists, kbs, files, f2d, blobs, next_id,
                       kg_hits, kg_resp, inflight>>

RmOneDoc ==
    \E d \in DocIds :
      \E r \in {RmHandler(Store, [doc_ids |-> <<d>>, user |-> "u1"])} :
        /\ Commit(r.S)
        /\ Answer("rm", r, {})
        /\ UNCHANGED <<kg_hits, kg_resp, inflight>>

NextKb == Dispatch \/ Unbind \/ Trace \/ WorkerAgg \/ TaskPurged \/ RmOneDoc

SpecKb == InitKb /\ [][NextKb]_vars

\* ---------------------------------------------------------------------------
\* Aggregate dispatch served by several processes: each request goes through
\* the handler's reads and writes one at a time, with no lock between them.

\* Faulty variant: the pointer is written only when it names no Task that is
\* still in progress.
AggPersistStep_FirstWins(S, kb_id, ty, task_id, saved) ==
    [code |-> "ok", msg |-> "", task_id |-> task_id,
     S |-> IF kb_id \in DOMAIN S.kbs /\ AggConflict(S, kb_id, ty) THEN S
           ELSE kb_update_by_id(S, kb_id, [f \in {PointerField(ty)} |-> task_id], saved)]

\* Lines 630-633: save the new Task's id in the pointer, answer with the id.
AggPersistStep(S, kb_id, ty, task_id, saved) ==
    [code |-> "ok", msg |-> "", task_id |-> task_id,
     S |-> kb_update_by_id(S, kb_id, [f \in {PointerField(ty)} |-> task_id], saved)]

\* Lines 611-628: list the documents and create the Task.
AggQueueStep(S, kb_id, ty) ==
    IF get_by_kb_id(S, kb_id) = {}
    THEN [code |-> "data_error", msg |-> "No documents in Knowledgebase",
          task_id |-> NoTaskId, S |-> S]
    ELSE LET S1 == queue_raptor_o_graphrag_tasks(S, kb_id, ty, get_by_kb_id(S, kb_id))
         IN [code |-> "pass", msg |-> "", task_id |-> S1.next_id, S |-> S1]

\* Lines 594-609: the knowledge base lookup and the single-flight check.
AggCheckStep(S, kb_id, ty) ==
    IF kb_id = ""
    THEN [code |-> "data_error", msg |-> "Lack of KB ID", task_id |-> NoTaskId, S |-> S]
    ELSE IF kb_id \notin DOMAIN S.kbs
    THEN [code |-> "data_error", msg |-> "Invalid Knowledgebase ID", task_id |-> NoTaskId, S |-> S]
    ELSE IF AggConflict(S, kb_id, ty)
    THEN [code |-> "data_error", msg |-> "in progress",
          task_id |-> S.kbs[kb_id][PointerField(ty)], S |-> S]
    ELSE [code |-> "pass", msg |-> "", task_id |-> NoTaskId, S |-> S]

\* The other processes whose request for the same knowledge base and kind
\* is past the check and has not written the pointer yet.
PastCheck(p) ==
    {q \in Procs \ {p} : /\ inflight[q].pc \in {"checked", "created"}
                         /\ inflight[q].kb_id = inflight[p].kb_id
                         /\ inflight[q].ty = inflight[p].ty}

InitRace ==
    /\ InitDoc

RaceCheck ==
    \E p \in Procs, kb_id \in KbRequestIds, ty \in AggKinds :
      \E r \in {AggCheckStep(Store, kb_id, ty)} :
        /\ inflight[p].pc = "idle"
        /\ Commit(r.S)
        /\ inflight' = [inflight EXCEPT ![p] =
                           IF r.code = "pass"
                           THEN [pc |-> "checked", kb_id |-> kb_id, ty |-> ty,
                                 task_id |-> NoTaskId]
                           ELSE Idle]
        /\ AnswerKb("race_check", r, {})
        /\ UNCHANGED <<kg_hits, kg_resp>>

RaceQueue ==
    \E p \in Procs :
      \E r \in {AggQueueStep(Store, inflight[p].kb_id, inflight[p].ty)} :
        /\ inflight[p].pc = "checked"
        /\ r.S.next_id <= MaxTasks
        /\ Commit(r.S)
        /\ inflight' = [inflight EXCEPT ![p] =
                           IF r.code = "pass"
                           THEN [@ EXCEPT !.pc = "created", !.task_id = r.task_id]
                           ELSE Idle]
        /\ AnswerKb("race_queue", r, {})
        /\ UNCHANGED <<kg_hits, kg_resp>>

\* saved: whether the store takes the pointer write of lines 630, 700, 770.
RacePersist ==
    \E p \in Procs, saved \in BOOLEAN :
      \E r \in {AggPersistStep(Store, inflight[p].kb_id, inflight[p].ty,
                               inflight[p].task_id, saved)} :
        /\ inflight[p].pc = "created"
        /\ Commit(r.S)
        /\ inflight' = [inflight EXCEPT ![p] = Idle]
        /\ AnswerKb("race_persist", r,
                    {c \in {"both_passed_check", "pointer_saved"} :
                        CASE c = "both_passed_check" -> PastCheck(p) # {}
                          [] c = "pointer_saved" -> saved})
        /\ UNCHANGED <<kg_hits, kg_resp>>

NextRace == RaceCheck \/ RaceQueue \/ RacePersist \/ WorkerAgg

SpecRace == InitRace /\ [][NextRace]_vars

\* ------------------------------------------------- aggregate properties
\* C2: in every reachable state, for every knowledge base that exists and has
\* at least one document and every aggregate kind, a dispatch request is
\* answered with the conflict naming the pointer's Task, and changes nothing,
\* exactly when the kind's pointer is set, the Task it names exists and that
\* Task's progress is neither failed (-1) nor done (1); otherwise (pointer
\* unset, Task absent, or progress -1 or 1) it is accepted and creates a new
\* Task of the kind with progress 0. This holds whether or not the pointer
\* write is saved.
C2_RejectIffInProgress ==
    \A k \in DOMAIN kbs, ty \in AggKinds, saved \in BOOLEAN :
        get_by_kb_id(Store, k) # {} =>
            LET r == RunAggregate(Store, k, ty, saved)
                ptr == kbs[k][PointerField(ty)]
                busy == /\ ptr # NoTaskId
                        /\ \E t \in tasks : t.id = ptr /\ t.progress \notin Terminal
            IN IF busy
               THEN /\ r.code = "data_error" /\ r.msg = "in progress"
                    /\ r.task_id = ptr /\ r.S = Store
               ELSE /\ r.code = "ok"
                    /\ \A t \in tasks : t.id # r.task_id
                    /\ \E t \in r.S.tasks :
                          t.id = r.task_id /\ t.kind = ty /\ t.progress = 0

C2_Witness ==
    /\ resp.op = "dispatch" /\ "rejected_in_progress" \in resp.cases
    /\ \E k \in DOMAIN kbs, ty \in AggKinds :
          /\ resp.task_id = kbs[k][PointerField(ty)]
          /\ \E t \in tasks : t.id = resp.task_id /\ t.kind = ty /\ t.progress = 1

\* C3 (as claimed): after any sequence of dispatch, unbind and worker steps,
\* served one at a time, at most one aggregate Task of a kind for a knowledge
\* base has a progress that is neither failed nor done.
C3_AtMostOneActive ==
    \A k \in KbIds, ty \in AggKinds :
        Cardinality({t \in tasks : /\ t.doc_id = GRAPH_RAPTOR_FAKE_DOC_ID
                                   /\ t.kb_id = k /\ t.kind = ty
                                   /\ t.progress \notin Terminal}) <= 1

\* ------------------------------------------------------------- graph view
\* Nodes and edges kept in the view (the slices of knowledge_graph).
NODE_LIMIT == 256
EDGE_LIMIT == 128
\* Largest node list and edge list of a stored graph payload.
MaxNodes == 300
MaxEdges == 400

Min(a, b) == IF a <= b THEN a ELSE b

\* KnowledgebaseService.accessible(kb_id, user_id).
kb_accessible(S, kb_id, user) == kb_id \in DOMAIN S.kbs /\ S.kbs[kb_id].tenant_id = user

\* Line 402: the tags the query of the view asks for.
KgQueryKwd == {"graph"}

\* retrievaler.search(req, index_name(tenant_id), [kb_id]): of the records of
\* the knowledge base that carry a knowledge_graph_kwd (hits, in index order),
\* those whose tag the request names.
search(hits, kb_id) ==
    LET asked(h) == h.knowledge_graph_kwd \in KgQueryKwd
    IN IF kb_id \in KbIds THEN SelectSeq(hits, asked) ELSE <<>>

\* x.get("pagerank", 0) and x.get("weight", 0).
get_pagerank(o) == IF "pagerank" \in DOMAIN o THEN o.pagerank ELSE 0
get_weight(o) == IF "weight" \in DOMAIN o THEN o.weight ELSE 0

\* sorted(s, key=key, reverse=True), k[i] being key(s[i]): descending by key;
\* elements of equal key keep their order in s. before[i] is the number of
\* elements placed in front of s[i].
sorted_reverse(s, k) ==
    LET n == Len(s)
        before == SubSeq([i \in 1..n |->
                     Cardinality({j \in 1..n : k[j] > k[i] \/ (k[j] = k[i] /\ j < i)})], 1, n)
        at == SubSeq([p \in 1..n |-> CHOOSE i \in 1..n : before[i] = p - 1], 1, n)
    IN SubSeq([p \in 1..n |-> s[at[p]]], 1, n)

\* s[:n]
Slice(s, n) == SubSeq(s, 1, Min(n, Len(s)))

\* [o for o in s if keep(o)]
RECURSIVE SelectHalves(_, _, _, _)
SelectHalves(s, keep, lo, hi) ==
    IF lo > hi THEN <<>>
    ELSE IF lo = hi THEN (IF keep[lo] THEN <<s[lo]>> ELSE <<>>)
    ELSE LET mid == (lo + hi) \div 2
         IN SelectHalves(s, keep, lo, mid) \o SelectHalves(s, keep, mid + 1, hi)

node_id_set(nodes) == {nodes[i].id : i \in 1..Len(nodes)}

filtered_edges_LoopsKept(edges, ids) ==
    SelectHalves(edges,
                 [i \in 1..Len(edges) |-> edges[i].source \in ids /\ edges[i].target \in ids],
                 1, Len(edges))

filtered_edges(edges, ids) ==
    SelectHalves(edges,
                 [i \in 1..Len(edges) |-> /\ edges[i].source # edges[i].target
                                          /\ edges[i].source \in ids
                                          /\ edges[i].target \in ids],
                 1, Len(edges))

\* The pruning of obj["graph"].
\* The sort keys of a node list and of an edge list.
pageranks(nodes) == SubSeq([i \in 1..Len(nodes) |-> get_pagerank(nodes[i])], 1, Len(nodes))
weights(edges) == SubSeq([i \in 1..Len(edges) |-> get_weight(edges[i])], 1, Len(edges))

GraphNodes(g) == Slice(sorted_reverse(g.nodes, pageranks(g.nodes)), NODE_LIMIT)

\* Faulty variant: the kept edges are sliced in payload order.
GraphEdges_Unsorted(g, nodes) ==
    Slice(filtered_edges(g.edges, node_id_set(nodes)), EDGE_LIMIT)

GraphEdges(g, nodes) ==
    LET kept == filtered_edges(g.edges, node_id_set(nodes))
    IN Slice(sorted_reverse(kept, weights(kept)), EDGE_LIMIT)

PruneGraph(g) ==
    IF "nodes" \in DOMAIN g
    THEN LET nodes == GraphNodes(g)
             g1 == [g EXCEPT !.nodes = nodes]
         IN IF "edges" \in DOMAIN g
            THEN [g1 EXCEPT !.edges = GraphEdges(g, nodes)]
            ELSE g1
    ELSE g

\* The loop over sres.ids[:1]: the first hit's content, when it parses, is
\* stored under the hit's own tag.
FirstHit(obj, hits) ==
    IF hits[1].parses
    THEN (hits[1].knowledge_graph_kwd :> hits[1].content) @@ obj
    ELSE obj

\* Faulty variant: a knowledge base without graph records is reported as an error.
EmptyView_AsError(obj) == [code |-> "data_error", data |-> obj]

\* Lines 408 and 411: the untouched obj is returned as the result.
EmptyView(obj) == [code |-> "ok", data |-> obj]

\* GET /{kb_id}/knowledge_graph
knowledge_graph(S, hits, kb_id, user) ==
    LET obj == NoView.data
    IN IF ~kb_accessible(S, kb_id, user)
       THEN [code |-> "auth_error", data |-> obj]
       ELSE IF ~indexExist(S, kb_id)
       THEN EmptyView(obj)
       ELSE IF Len(search(hits, kb_id)) = 0
       THEN EmptyView(obj)
       ELSE LET obj1 == FirstHit(obj, search(hits, kb_id))
            IN [code |-> "ok", data |-> [obj1 EXCEPT !.graph = PruneGraph(obj1.graph)]]

\* ------------------------------------------------ graph view specification
NodePatterns == {"asc", "desc", "none", "mixed"}
EdgePatterns == {"chain", "loops", "ghost"}
NodeCounts == {0, 1, 2, NODE_LIMIT - 1, NODE_LIMIT, NODE_LIMIT + 1, MaxNodes}
EdgeCounts == {0, 2, EDGE_LIMIT, EDGE_LIMIT + 1, MaxEdges}

\* The i-th node of a stored payload of n nodes: pagerank rising with i,
\* falling with i, absent, or a mix of absent, positive, negative and zero.
Node(i, n, pat) ==
    CASE pat = "asc" -> [id |-> i, pagerank |-> i - 1]
      [] pat = "desc" -> [id |-> i, pagerank |-> n - i]
      [] pat = "none" -> [id |-> i]
      [] OTHER -> CASE i % 4 = 0 -> [id |-> i]
                    [] i % 4 = 1 -> [id |-> i, pagerank |-> 2]
                    [] i % 4 = 2 -> [id |-> i, pagerank |-> -1]
                    [] OTHER -> [id |-> i, pagerank |-> 0]

Nodes(n, pat) == SubSeq([i \in 1..n |-> Node(i, n, pat)], 1, n)

\* The j-th edge of a stored payload over node ids 1..n: a chain with rising
\* weights; every third edge a self-loop and every second without a weight;
\* every fourth edge to an id that is not a node.
Edge(j, n, pat) ==
    LET n1 == IF n = 0 THEN 1 ELSE n
    IN CASE pat = "chain" ->
              [source |-> ((j - 1) % n1) + 1, target |-> (j % n1) + 1, weight |-> j - 1]
         [] pat = "loops" ->
              LET src == ((3 * j) % n1) + 1
                  tgt == IF j % 3 = 0 THEN src ELSE ((7 * j) % n1) + 1
              IN IF j % 2 = 0 THEN [source |-> src, target |-> tgt]
                 ELSE [source |-> src, target |-> tgt, weight |-> (j % 5) - 2]
         [] OTHER ->
              [source |-> ((j - 1) % n1) + 1,
               target |-> IF j % 4 = 0 THEN n + 1 ELSE ((j + 1) % n1) + 1,
               weight |-> j % 2]

Edges(m, n, pat) == SubSeq([j \in 1..m |-> Edge(j, n, pat)], 1, m)

\* A record of the index tagged knowledge_graph_kwd, with its parsed
\* content_with_weight (parses = FALSE: json.loads raises).
Hit(ty, content) == [knowledge_graph_kwd |-> ty, parses |-> TRUE, content |-> content]
BadHit == [knowledge_graph_kwd |-> "graph", parses |-> FALSE, content |-> <<>>]

OddHits ==
    {<<Hit("mind_map", [id |-> "root", children |-> <<>>])>>,
     <<Hit("graph", <<>>)>>,
     <<Hit("entity", [nodes |-> Nodes(2, "asc")])>>,
     <<BadHit>>,
     <<BadHit, Hit("graph", [nodes |-> Nodes(2, "asc")])>>,
     <<Hit("graph", [nodes |-> Nodes(2, "desc")]), Hit("graph", [nodes |-> Nodes(1, "asc")])>>,
     <<Hit("graph", [nodes |-> Nodes(2, "desc")]),
       Hit("mind_map", [id |-> "root", children |-> <<>>])>>}

InitGraph ==
    /\ InitRows
    /\ \/ idx_exists = {} /\ kg_hits = <<>>
       \/ idx_exists = KbIds /\ kg_hits = <<>>
       \/ idx_exists = KbIds /\ kg_hits \in OddHits
       \/ /\ idx_exists = KbIds
          /\ \E n \in NodeCounts, np \in NodePatterns :
               \/ kg_hits = <<Hit("graph", [nodes |-> Nodes(n, np)])>>
               \/ \E m \in EdgeCounts, ep \in EdgePatterns :
                    kg_hits = <<Hit("graph", [nodes |-> Nodes(n, np),
                                              edges |-> Edges(m, n, ep)])>>
          \* an edge list without a node list is returned untouched
       \/ /\ idx_exists = KbIds
          /\ \E m \in EdgeCounts, ep \in EdgePatterns :
               kg_hits = <<Hit("graph", [edges |-> Edges(m, 2, ep)])>>

KnowledgeGraph ==
    \E kb_id \in KbRequestIds, user \in Users :
        /\ kg_resp' = knowledge_graph(Store, kg_hits, kb_id, user)
        /\ UNCHANGED <<docs, tasks, queue, index, idx_exists, kbs, files, f2d, blobs,
                       next_id, resp, kg_hits, inflight>>

NextGraph == KnowledgeGraph

SpecGraph == InitGraph /\ [][NextGraph]_vars

\* --------------------------------------------------- graph view properties
\* The stored payload the view is built from, when it is a graph payload
\* with a node list.
HasNodeList ==
    /\ Len(kg_hits) > 0
    /\ kg_hits[1].parses
    /\ kg_hits[1].knowledge_graph_kwd = "graph"
    /\ "nodes" \in DOMAIN kg_hits[1].content

\* The pagerank of each node and the weight of each edge of a list, a missing
\* one counting as 0.
PagerankOr0(s) ==
    SubSeq([i \in 1..Len(s) |-> IF "pagerank" \in DOMAIN s[i] THEN s[i].pagerank ELSE 0],
           1, Len(s))
WeightOr0(s) ==
    SubSeq([i \in 1..Len(s) |-> IF "weight" \in DOMAIN s[i] THEN s[i].weight ELSE 0],
           1, Len(s))

\* k, the keys of a list in list order, never rises.
Descending(k) == \A p \in 1..(Len(k) - 1) : k[p] >= k[p + 1]

\* out (with keys kout) is made of elements of s (with keys ks), each used at
\* most as often as it occurs in s, and every element of s whose key is above
\* the smallest key of out is in out.
TopOf(out, s, kout, ks) ==
    /\ \A p \in 1..Len(out) : Count(out, out[p]) <= Count(s, out[p])
    /\ Len(out) > 0 =>
          LET low == kout[Len(out)]
          IN Cardinality({i \in 1..Len(s) : ks[i] > low})
               = Cardinality({p \in 1..Len(out) : kout[p] > low})

\* C10: in every reachable state whose first graph record parses to a payload
\* with a node list of n nodes, the view served to a user with access to the
\* knowledge base has exactly min(256, n) nodes, in descending pagerank order
\* (a missing pagerank counting as 0), which are nodes of the payload such
\* that no node left out has a higher pagerank than a node returned; and when
\* the view has edges they number at most 128, none has source = target, both
\* endpoints of each are ids of returned nodes, and they are in descending
\* weight order (a missing weight counting as 0).
C10_GraphViewBounded ==
    \A kb_id \in KbIds, user \in Users :
        (kb_accessible(Store, kb_id, user) /\ indexExist(Store, kb_id) /\ HasNodeList) =>
            LET g == kg_hits[1].content
                r == knowledge_graph(Store, kg_hits, kb_id, user)
                out == r.data.graph
                ids == node_id_set(out.nodes)
            IN /\ r.code = "ok"
               /\ "nodes" \in DOMAIN out
               /\ Len(out.nodes) = Min(256, Len(g.nodes))
               /\ Descending(PagerankOr0(out.nodes))
               /\ TopOf(out.nodes, g.nodes, PagerankOr0(out.nodes), PagerankOr0(g.nodes))
               /\ "edges" \in DOMAIN out <=> "edges" \in DOMAIN g
               /\ "edges" \in DOMAIN out =>
                     /\ Len(out.edges) <= 128
                     /\ \A p \in 1..Len(out.edges) :
                           /\ out.edges[p].source # out.edges[p].target
                           /\ out.edges[p].source \in ids
                           /\ out.edges[p].target \in ids
                     /\ Descending(WeightOr0(out.edges))

\* A view of 256 nodes and 128 edges has been served from a payload of more
\* than 256 nodes, some without pagerank, whose edge list has a self-loop,
\* an edge to a node that was pruned and an edge without weight.
C10_Witness ==
    /\ HasNodeList
    /\ kg_resp.code = "ok"
    /\ "nodes" \in DOMAIN kg_resp.data.graph
    /\ "edges" \in DOMAIN kg_resp.data.graph
    /\ LET g == kg_hits[1].content
           out == kg_resp.data.graph
       IN /\ Len(g.nodes) > NODE_LIMIT
          /\ Len(out.nodes) = NODE_LIMIT
          /\ Len(out.edges) = EDGE_LIMIT
          /\ \E i \in 1..Len(g.nodes) : "pagerank" \notin DOMAIN g.nodes[i]
          /\ \E j \in 1..Len(g.edges) : g.edges[j].source = g.edges[j].target
          /\ \E j \in 1..Len(g.edges) : "weight" \notin DOMAIN g.edges[j]
          /\ \E j \in 1..Len(g.edges) :
                /\ g.edges[j].target \in node_id_set(g.nodes)
                /\ g.edges[j].target \notin node_id_set(out.nodes)

\* C11: in every reachable state, a graph view requested by a user with access
\* to a knowledge base whose index partition does not exist, or whose graph
\* query returns no record, is answered as a success carrying exactly
\* {graph: {}, mind_map: {}}.
C11_EmptyViewIsSuccess ==
    \A kb_id \in KbIds, user \in Users :
        (/\ kb_accessible(Store, kb_id, user)
         /\ (kb_id \notin idx_exists \/ Len(kg_hits) = 0)) =>
            LET r == knowledge_graph(Store, kg_hits, kb_id, user)
            IN /\ r.code = "ok"
               /\ DOMAIN r.data = {"graph", "mind_map"}
               /\ DOMAIN r.data.graph = {}
               /\ DOMAIN r.data.mind_map = {}

\* The view of a knowledge base without index partition has been served.
C11_Witness ==
    /\ idx_exists = {}
    /\ kg_resp.code = "ok"
    /\ DOMAIN kg_resp.data.graph = {} /\ DOMAIN kg_resp.data.mind_map = {}

\* ------------------------------------------ aggregate properties (continued)
\* The kind's pointer of the knowledge base names a Task row whose progress is
\* neither failed nor done.
Busy(k, ty) ==
    /\ kbs[k][PointerField(ty)] # NoTaskId
    /\ \E t \in tasks : t.id = kbs[k][PointerField(ty)] /\ t.progress \notin Terminal

NotFoundError(r) ==
    /\ r.code = "data_error"
    /\ r.msg \in {"Invalid Knowledgebase ID", "No documents in Knowledgebase"}
    /\ r.task_id = NoTaskId

\* C12 (as claimed): in every reachable state, a dispatch for a knowledge base
\* that does not exist or has no documents fails with a not-found error,
\* creates no Task and leaves the stored state as it was.
C12_NotFoundWhenMissingOrEmpty ==
    \A k \in KbRequestIds, ty \in AggKinds, saved \in BOOLEAN :
        (k \notin DOMAIN kbs \/ get_by_kb_id(Store, k) = {}) =>
            LET r == RunAggregate(Store, k, ty, saved)
            IN NotFoundError(r) /\ r.S = Store

\* C12 (amended): in every reachable state, a dispatch fails with a not-found
\* error when the knowledge base does not exist, and when it exists, has no
\* documents and the kind's pointer names no Task in progress; when it has no
\* documents and the pointer names a Task in progress, the dispatch fails with
\* the conflict; in all three cases no Task is created and the stored state,
\* the pointers included, is as it was.
C12_NotFoundUnlessConflict ==
    \A k \in KbRequestIds, ty \in AggKinds, saved \in BOOLEAN :
        LET r == RunAggregate(Store, k, ty, saved) IN
        /\ k \notin DOMAIN kbs =>
              /\ NotFoundError(r) /\ r.msg = "Invalid Knowledgebase ID"
              /\ r.S = Store
        /\ (k \in DOMAIN kbs /\ get_by_kb_id(Store, k) = {}) =>
              /\ r.S = Store
              /\ r.S.tasks = tasks /\ r.S.kbs = kbs
              /\ IF Busy(k, ty)
                 THEN /\ r.code = "data_error" /\ r.msg = "in progress"
                      /\ r.task_id = kbs[k][PointerField(ty)]
                 ELSE NotFoundError(r) /\ r.msg = "No documents in Knowledgebase"

\* A dispatch for a knowledge base whose documents have all been removed has
\* been refused for the lack of documents.
C12_Witness ==
    /\ resp.op = "dispatch" /\ "no_documents" \in resp.cases
    /\ resp.code = "data_error"
    /\ \A d \in DOMAIN docs : docs[d].kb_id \notin KbIds

\* C13: in every reachable state, a dispatch whose pointer write is not saved
\* is accepted exactly when it would be with the write saved; when accepted it
\* returns as a success the id of a Task that was not there before and that
\* is in the ledger afterwards, of the requested kind and with progress 0,
\* and the knowledge base's row (every pointer) is as it was.
C13_UnsavedPointerKeepsTask ==
    \A k \in DOMAIN kbs, ty \in AggKinds :
        LET r == RunAggregate(Store, k, ty, FALSE)
            a == RunAggregate(Store, k, ty, TRUE)
        IN /\ r.code = a.code
           /\ r.code = "ok" =>
                 /\ r.task_id # NoTaskId
                 /\ \A t \in tasks : t.id # r.task_id
                 /\ \E t \in r.S.tasks :
                       t.id = r.task_id /\ t.kind = ty /\ t.progress = 0 /\ t.kb_id = k
                 /\ tasks \subseteq r.S.tasks
                 /\ r.S.kbs = kbs

\* A dispatch whose pointer write was lost has returned the id of a Task that
\* is in the ledger and that no pointer names.
C13_Witness ==
    /\ resp.op = "dispatch" /\ resp.code = "ok" /\ "pointer_not_saved" \in resp.cases
    /\ \E t \in tasks : t.id = resp.task_id /\ t.progress = 0
    /\ \A k \in DOMAIN kbs, ty \in AggKinds : kbs[k][PointerField(ty)] # resp.task_id

\* C14 (as claimed): in every reachable state, a dispatch that returns a Task
\* id leaves the kind's pointer equal to that id.
C14_PointerIsReturnedTask ==
    \A k \in DOMAIN kbs, ty \in AggKinds, saved \in BOOLEAN :
        LET r == RunAggregate(Store, k, ty, saved)
        IN r.code = "ok" => r.S.kbs[k][PointerField(ty)] = r.task_id

\* C14 (amended): in every reachable state, when a dispatch returns a Task id
\* and its pointer write is saved, the kind's pointer equals that id and
\* every other field of the knowledge base is as it was; when the write is
\* not saved, the pointer keeps the value it had.
C14_PointerIsSavedTask ==
    \A k \in DOMAIN kbs, ty \in AggKinds, saved \in BOOLEAN :
        LET r == RunAggregate(Store, k, ty, saved)
        IN r.code = "ok" =>
              /\ r.task_id # NoTaskId
              /\ IF saved
                 THEN /\ r.S.kbs[k][PointerField(ty)] = r.task_id
                      /\ \A f \in DOMAIN kbs[k] \ {PointerField(ty)} : r.S.kbs[k][f] = kbs[k][f]
                 ELSE r.S.kbs[k][PointerField(ty)] = kbs[k][PointerField(ty)]

\* A saved dispatch has moved a pointer from the Task of an earlier dispatch
\* to the Task it returned.
C14_Witness ==
    /\ resp.op = "dispatch" /\ resp.code = "ok" /\ "pointer_moved" \in resp.cases
    /\ \E k \in DOMAIN kbs, ty \in AggKinds : kbs[k][PointerField(ty)] = resp.task_id
    /\ \E t \in tasks : t.id < resp.task_id

\* C15 (as claimed): in every reachable state and for every knowledge base
\* and kind, the trace returns the empty result exactly when the kind's
\* pointer is unset, returns the row of the Task the pointer names when it is
\* set, and leaves the stored state as it was.
C15_TraceEmptyOrStatus ==
    \A k \in DOMAIN kbs, ty \in AggKinds :
        LET r == TraceAggregate(Store, k, ty)
            ptr == kbs[k][PointerField(ty)]
        IN /\ (r.code = "ok" /\ DOMAIN r.data = {}) <=> ptr = NoTaskId
           /\ ptr # NoTaskId =>
                 /\ r.code = "ok"
                 /\ \E t \in tasks : t.id = ptr /\ r.data = t
           /\ r.S = Store

\* C15 (amended): in every reachable state and for every knowledge base and
\* kind, the trace returns the empty result as a success exactly when the
\* kind's pointer is unset; when the pointer is set and the Task it names is
\* in the ledger it returns that Task's row as a success; when the pointer is
\* set and the ledger has no such Task it fails with the not-found error; in
\* every case the stored state is as it was.
C15_TraceEmptyStatusOrMissing ==
    \A k \in DOMAIN kbs, ty \in AggKinds :
        LET r == TraceAggregate(Store, k, ty)
            ptr == kbs[k][PointerField(ty)]
        IN /\ (r.code = "ok" /\ DOMAIN r.data = {}) <=> ptr = NoTaskId
           /\ (ptr # NoTaskId /\ \E t \in tasks : t.id = ptr) =>
                 /\ r.code = "ok"
                 /\ \E t \in tasks : t.id = ptr /\ r.data = t
           /\ (ptr # NoTaskId /\ \A t \in tasks : t.id # ptr) =>
                 /\ r.code = "data_error"
                 /\ r.msg = "Task Not Found or Error Occurred"
           /\ r.S = Store

\* The trace has returned the row of a Task that is under way.
C15_Witness ==
    /\ resp.op = "trace" /\ resp.code = "ok" /\ "trace_status" \in resp.cases
    /\ resp.task_id # NoTaskId
    /\ \E k \in DOMAIN kbs, ty \in AggKinds :
          /\ kbs[k][PointerField(ty)] = resp.task_id
          /\ \E t \in tasks : t.id = resp.task_id /\ t.kind = ty /\ t.progress = 1

GraphTags == {"graph", "subgraph", "entity", "relation"}

C17_RacingDispatchesBothCreate ==
    /\ \A p \in Procs :
          inflight[p].pc = "created" =>
             \E t \in tasks : /\ t.id = inflight[p].task_id
                              /\ t.kb_id = inflight[p].kb_id
                              /\ t.kind = inflight[p].ty
                              /\ t.doc_id = GRAPH_RAPTOR_FAKE_DOC_ID
    /\ \A p, q \in Procs :
          (/\ p # q
           /\ inflight[p].pc = "created" /\ inflight[q].pc = "created") =>
             inflight[p].task_id # inflight[q].task_id
    /\ (resp.op = "race_persist" /\ "pointer_saved" \in resp.cases) =>
          \E t \in tasks :
             /\ t.id = resp.task_id
             /\ kbs[t.kb_id][PointerField(t.kind)] = t.id
             /\ \A q \in Procs :
                   (/\ inflight[q].pc = "created"
                    /\ inflight[q].kb_id = t.kb_id /\ inflight[q].ty = t.kind) =>
                      /\ inflight[q].task_id # t.id
                      /\ \E u \in tasks : u.id = inflight[q].task_id /\ u.kind = t.kind

\* Two requests passed the check before either wrote the pointer: two Tasks
\* of one kind of one knowledge base are in progress, and the pointer names
\* one of them only.
C17_Witness ==
    /\ resp.op = "race_persist" /\ "both_passed_check" \in resp.cases
    /\ \E t, u \in tasks :
          /\ t.id # u.id /\ t.kb_id = u.kb_id /\ t.kind = u.kind
          /\ InProgress(t) /\ InProgress(u)
          /\ t.id = resp.task_id
          /\ kbs[t.kb_id][PointerField(t.kind)] = t.id
          /\ \E q \in Procs : inflight[q].pc = "created" /\ inflight[q].task_id = u.id

\* C18: in every reachable state, a cancel request that succeeds leaves no
\* Task row that references any of the documents it names.
C18_CancelLeavesNoTask ==
    \A req \in RunReqs :
        LET r == RunHandler(Store, req) IN
        (req.run = CANCEL /\ r.code = "ok") =>
            /\ Processed(req, r) = {req.doc_ids[i] : i \in 1..Len(req.doc_ids)}
            /\ \A d \in Processed(req, r) :
                  /\ docs[d].run = RUNNING
                  /\ \A t \in r.S.tasks : t.doc_id # d

\* A cancel without delete has been served for a document that had a Task
\* row with no progress yet: the document is CANCELLED and has no Task row.
C18_Witness ==
    /\ resp.op = "run" /\ resp.code = "ok" /\ "cancel_with_tasks" \in resp.cases
    /\ \E d \in DOMAIN docs : /\ docs[d].run = CANCEL
                              /\ \A t \in tasks : t.doc_id # d
                              /\ \E u \in queue : u.doc_id = d

\* C19: in every reachable state, a run request with run = RUNNING and
\* delete = true that succeeds enqueues each unit at a moment when the
\* document has no Task row and, its knowledge base having an index
\* partition, no index entry; when the request returns, every Task row of a
\* document it names was created by this request, and no index entry of the
\* document is left in an existing partition.
C19_RerunStartsFromEmpty ==
    \A req \in RunReqs :
        LET r == RunHandler(Store, req) IN
        (req.run = RUNNING /\ req.delete /\ r.code = "ok") =>
            /\ \A i \in 1..Len(r.enq) :
                  /\ r.enq[i].tasks = {}
                  /\ indexExist(Store, r.enq[i].row.kb_id) => r.enq[i].index = {}
            /\ \A d \in Processed(req, r) :
                  /\ \A t \in r.S.tasks : t.doc_id = d => t.id > next_id /\ t.progress = 0
                  /\ indexExist(Store, docs[d].kb_id) =>
                        \A e \in r.S.index : e.doc_id # d

\* A rerun with delete has been served for a document that had a Task row
\* and index entries: its only Task row is the one handed out last, with no
\* progress, and the index holds nothing of it.
C19_Witness ==
    /\ resp.op = "run" /\ resp.code = "ok" /\ "rerun_with_tasks" \in resp.cases
    /\ \E d \in DOMAIN docs :
          /\ docs[d].run = RUNNING
          /\ {t.id : t \in {u \in tasks : u.doc_id = d}} = {next_id}
          /\ \A t \in tasks : t.doc_id = d => t.progress = 0
          /\ \A e \in index : e.doc_id # d
          /\ next_id > 1

\* C20: in every reachable state, whatever run value a run request carries,
\* the run-state it leaves on a document it processed is RUNNING, or is
\* CANCELLED on a document that was RUNNING; it is never DONE, FAILED or
\* UNSTARTED.
C20_RunWritesMachineEdges ==
    \A req \in RunReqs :
        LET r == RunHandler(Store, req) IN
        \A d \in Processed(req, r) \cap DOMAIN r.S.docs :
            \/ r.S.docs[d].run = RUNNING
            \/ r.S.docs[d].run = CANCEL /\ docs[d].run = RUNNING

\* C21 (as claimed): in every reachable state the chunk_num, token_num and
\* process_duration of every document are non-negative; all three are zero
\* for every document whose run-state is UNSTARTED; all three are zero on
\* every document a successful destructive rerun has just reset, and on the
\* document a parser change has just reset.
C21_CountersZeroWhenUnstartedOrReset ==
    /\ \A d \in DOMAIN docs :
          /\ docs[d].chunk_num >= 0 /\ docs[d].token_num >= 0
          /\ docs[d].process_duration >= 0
          /\ docs[d].run = UNSTART =>
                /\ docs[d].chunk_num = 0 /\ docs[d].token_num = 0
                /\ docs[d].process_duration = 0
    /\ \A req \in RunReqs :
          LET r == RunHandler(Store, req) IN
          (req.run = RUNNING /\ req.delete /\ r.code = "ok") =>
              \A d \in Processed(req, r) :
                  /\ r.S.docs[d].chunk_num = 0 /\ r.S.docs[d].token_num = 0
                  /\ r.S.docs[d].process_duration = 0
    /\ \A req \in ParserReqs :
          LET r == change_parser(Store, req) IN
          (r.code = "ok" /\ r.S # Store) =>
              /\ r.S.docs[req.doc_id].chunk_num = 0
              /\ r.S.docs[req.doc_id].token_num = 0
              /\ r.S.docs[req.doc_id].process_duration = 0

\* What a run request leaves RUNNING has a unit in the queue whose Task row
\* is in the ledger.
Dispatched(S, d) ==
    \E u \in S.queue : u.doc_id = d /\ \E t \in S.tasks : t.id = u.task_id /\ t.doc_id = d

\* C22 (as claimed): no run request returns with a document RUNNING and no
\* unit enqueued for it; and, the worker eventually finishing every unit that
\* is enqueued, every document that is RUNNING is eventually DONE, FAILED or
\* CANCELLED, or is deleted.
C22_RunningEventuallyLeft ==
    /\ [](\A req \in RunReqs :
            LET r == RunHandler(Store, req) IN
            \A d \in Processed(req, r) \cap DOMAIN r.S.docs :
                r.S.docs[d].run = RUNNING => Dispatched(r.S, d))
    /\ \A d \in DocIds :
          (d \in DOMAIN docs /\ docs[d].run = RUNNING)
             ~> (d \notin DOMAIN docs \/ docs[d].run \in {DONE, FAIL, CANCEL})

\* The ids a status change names.
StatusNamed(req) == {req.doc_ids[i] : i \in 1..Len(req.doc_ids)}

\* C23: in every reachable state, whatever the request and whatever the
\* stores do, a status change leaves the Task rows, the queue, the knowledge
\* bases, the files and the blobs as they were; it adds and removes no
\* document and changes no field of a document other than the availability
\* flag, and that only on documents the request names; the index keeps as
\* many entries as it had, every entry being as it was in every attribute
\* other than available_int, and untouched when its document is not named.
C23_ToggleTouchesOnlyAvailability ==
    \A req \in StatusReqs :
        LET r == change_status(Store, req) IN
        /\ r.S.tasks = tasks /\ r.S.queue = queue /\ r.S.kbs = kbs
        /\ r.S.files = files /\ r.S.f2d = f2d /\ r.S.blobs = blobs
        /\ r.S.next_id = next_id /\ r.S.idx_exists = idx_exists
        /\ DOMAIN r.S.docs = DOMAIN docs
        /\ \A d \in DOMAIN docs :
              /\ \A f \in DOMAIN docs[d] \ {"status"} : r.S.docs[d][f] = docs[d][f]
              /\ d \notin StatusNamed(req) => r.S.docs[d] = docs[d]
        /\ Cardinality(r.S.index) = Cardinality(index)
        /\ \A e \in index :
              /\ \E e2 \in r.S.index :
                    \A f \in DOMAIN e \ {"available_int"} : e2[f] = e[f]
              /\ e.doc_id \notin StatusNamed(req) => e \in r.S.index

\* A DONE document with a Task row and index entries has been disabled: its
\* flag and the available_int of its entries are 0, the Task row and the
\* run-state are still there.
C23_Witness ==
    /\ resp.op = "change_status" /\ "flag_flipped" \in resp.cases
    /\ \E d \in DOMAIN docs :
          /\ docs[d].status = "0" /\ docs[d].run = DONE /\ docs[d].chunk_num > 0
          /\ \E t \in tasks : t.doc_id = d
          /\ \E e \in index : e.doc_id = d
          /\ \A e \in index : e.doc_id = d => e.available_int = 0

\* C24 (as claimed): in every reachable state, a status change with a valid
\* status has one entry in its result map for every id it names; the entry
\* is an error entry for every id whose update failed at any stage (the
\* access check, the document update, the index update), and a status entry
\* with the flag written for every other id, whatever happened to the ids
\* before it.
C24_EveryFailureReported ==
    \A req \in StatusReqs :
        LET r == change_status(Store, req) IN
        r.code = "ok" =>
            /\ DOMAIN r.data = StatusNamed(req)
            /\ \A d \in StatusNamed(req) :
                  IF accessible(Store, d, req.user) /\ req.faults[d] = "none"
                  THEN /\ DOMAIN r.data[d] = {"status"}
                       /\ r.S.docs[d].status = req.status
                  ELSE DOMAIN r.data[d] = {"error"}

\* ------------------------------------------------------ file properties
\* C25: in a multi-document delete a failure on one id (the document removal
\* returning false, a store raising) does not stop the remaining ids: every
\* other named document is deleted, the failure is reported when the request
\* ends, and the steps already applied to the failing id (its Task rows are
\* gone) stay applied.
C25_DeleteFailureDoesNotStopTheRest ==
    \A req \in RmBulkReqs(DOMAIN docs) :
        (\A i \in 1..Len(req.doc_ids) : accessible(Store, req.doc_ids[i], req.user)) =>
            LET r == RmHandler(Store, req) IN
            \A i \in 1..Len(req.doc_ids) :
                /\ req.faults[i] = "none" => req.doc_ids[i] \notin DOMAIN r.S.docs
                /\ req.faults[i] \in {"remove_false", "remove_raises"} =>
                      /\ r.code # "ok"
                      /\ \A t \in r.S.tasks : t.doc_id # req.doc_ids[i]

\* C26: a document deletion removes a blob only when the deletion of the
\* linked file record removed a record, and never a blob that another
\* existing document still reaches through a file-linkage record.
C26_BlobRemovedOnlyWhenUnreferenced ==
    \A d \in DOMAIN docs :
        accessible(Store, d, "u1") =>
            LET r == RmHandler(Store, [doc_ids |-> <<d>>, user |-> "u1"]) IN
            \A b \in blobs \ r.S.blobs :
                /\ files \ r.S.files # {}
                /\ \A o \in DOMAIN r.S.docs :
                      (\E l \in r.S.f2d : l.document_id = o) =>
                          get_storage_address(Store, o) # b

\* C28: whatever documents the document rm, the knowledge-base rm, the
\* file-to-document rm and convert have removed, no per-document Task row
\* names a document that no longer exists.
C28_NoTaskRowOfRemovedDocument ==
    \A t \in tasks : t.doc_id \in DocIds \cup {DocName[n] : n \in 1..MaxUuids} =>
                        t.doc_id \in DOMAIN docs

\* C27: when a table document is deleted, the cached field map of its
\* knowledge base is cleared if and only if no DONE table document remains in
\* the knowledge base after the deletion.
C27_FieldMapClearedWithLastTable ==
    \A d \in DOMAIN docs :
        (/\ accessible(Store, d, "u1")
         /\ docs[d].parser_id = TABLE
         /\ kbs[docs[d].kb_id].field_map) =>
            LET k == docs[d].kb_id
                r == RmHandler(Store, [doc_ids |-> <<d>>, user |-> "u1"])
            IN ~r.S.kbs[k].field_map <=>
                  ~\E o \in DOMAIN r.S.docs :
                      /\ r.S.docs[o].kb_id = k
                      /\ r.S.docs[o].parser_id = TABLE
                      /\ r.S.docs[o].run = DONE

\* ------------------------------------- graph view properties (continued)
\* The stored payload the view is built from, when it is a graph payload
\* with an edge list.
HasEdgeList ==
    /\ Len(kg_hits) > 0
    /\ kg_hits[1].parses
    /\ kg_hits[1].knowledge_graph_kwd = "graph"
    /\ "edges" \in DOMAIN kg_hits[1].content

\* The edges of the view out are pruned: at most 128, no self-loop, both
\* endpoints among the nodes of the view, in descending weight order.
EdgesPruned(out) ==
    LET ids == IF "nodes" \in DOMAIN out THEN node_id_set(out.nodes) ELSE {}
    IN /\ "edges" \in DOMAIN out
       /\ Len(out.edges) <= 128
       /\ \A p \in 1..Len(out.edges) :
             /\ out.edges[p].source # out.edges[p].target
             /\ out.edges[p].source \in ids
             /\ out.edges[p].target \in ids
       /\ Descending(WeightOr0(out.edges))

\* C29 (as claimed): whenever the graph payload has an edge list, with or
\* without a node list, the edges of the view contain no self-loop, reference
\* only returned nodes, are in descending weight order and number at most 128.
C29_EdgesPrunedForEveryPayload ==
    \A kb_id \in KbIds, user \in Users :
        (kb_accessible(Store, kb_id, user) /\ indexExist(Store, kb_id) /\ HasEdgeList) =>
            EdgesPruned(knowledge_graph(Store, kg_hits, kb_id, user).data.graph)

\* C29 (amended): whenever the graph payload has a node list and an edge list,
\* the edges of the view contain no self-loop, reference only returned nodes,
\* are in descending weight order and number at most 128.
C29_EdgesPrunedWhenNodesListed ==
    \A kb_id \in KbIds, user \in Users :
        (/\ kb_accessible(Store, kb_id, user) /\ indexExist(Store, kb_id)
         /\ HasEdgeList /\ HasNodeList) =>
            EdgesPruned(knowledge_graph(Store, kg_hits, kb_id, user).data.graph)

\* A view of 128 edges has been served from a payload of at most 256 nodes
\* whose edge list is longer and holds self-loops and edges without weight.
C29_Witness ==
    /\ HasEdgeList /\ HasNodeList
    /\ kg_resp.code = "ok"
    /\ "edges" \in DOMAIN kg_resp.data.graph
    /\ LET g == kg_hits[1].content IN
       /\ Len(g.nodes) <= NODE_LIMIT
       /\ Len(g.edges) > EDGE_LIMIT
       /\ Len(kg_resp.data.graph.edges) = EDGE_LIMIT
       /\ \E j \in 1..Len(g.edges) : g.edges[j].source = g.edges[j].target
       /\ \E p \in 1..EDGE_LIMIT : "weight" \notin DOMAIN kg_resp.data.graph.edges[p]

\* C30: when the index of a knowledge base holds a record tagged mind_map, the
\* view served to a user with access to the knowledge base carries the payload
\* of that record, as stored, under the mind_map key.
C30_MindMapReturnedVerbatim ==
    \A kb_id \in KbIds, user \in Users :
        (kb_accessible(Store, kb_id, user) /\ indexExist(Store, kb_id)) =>
            \A i \in 1..Len(kg_hits) :
                (kg_hits[i].knowledge_graph_kwd = "mind_map" /\ kg_hits[i].parses) =>
                    LET r == knowledge_graph(Store, kg_hits, kb_id, user)
                    IN r.code = "ok" /\ r.data.mind_map = kg_hits[i].content

\* ------------------------------------------------- accounting properties
\* C31: in every reachable state the aggregate chunk and token counters of
\* each knowledge base equal the sums of chunk_num and token_num over the
\* documents that exist in it.
C31_AggregatesEqualDocumentSums ==
    \A k \in DOMAIN kbs :
        LET ids == {d \in DOMAIN docs : docs[d].kb_id = k} IN
        /\ kbs[k].chunk_num = SumOver([d \in ids |-> docs[d].chunk_num], ids)
        /\ kbs[k].token_num = SumOver([d \in ids |-> docs[d].token_num], ids)

\* C32: whenever a run request with delete = true has gone through a document
\* (its index entries are deleted), the document's chunk_num and token_num
\* are zero when the request completes, whatever run value the request carries.
C32_CountersZeroAfterIndexDelete ==
    \A req \in RunReqs :
        (Authorized(Store, req) /\ req.delete) =>
            LET r == RunHandler(Store, req) IN
            \A i \in 1..r.done :
                /\ r.S.docs[req.doc_ids[i]].chunk_num = 0
                /\ r.S.docs[req.doc_ids[i]].token_num = 0

\* C33: a cancel that is refused because a document is not RUNNING leaves
\* that document's row (run-state, progress, counters), its Task rows and its
\* index entries as they were, with and without delete = true.
C33_RefusedCancelChangesNothing ==
    \A req \in RunReqs :
        (Authorized(Store, req) /\ req.run = CANCEL) =>
            LET r == RunHandler(Store, req) IN
            (r.code = "data_error" /\ r.done < Len(req.doc_ids)) =>
                LET d == req.doc_ids[r.done + 1] IN
                (d \in DOMAIN docs /\ \A i \in 1..r.done : req.doc_ids[i] # d) =>
                    /\ docs[d].run # RUNNING
                    /\ r.S.docs[d] = docs[d]
                    /\ {t \in r.S.tasks : t.doc_id = d} = {t \in tasks : t.doc_id = d}
                    /\ {e \in r.S.index : e.doc_id = d} = {e \in index : e.doc_id = d}

\* A cancel with delete = true has been refused for a document that has Task
\* rows and index entries, and they are still there.
C33_Witness ==
    /\ resp.op = "run" /\ resp.code = "data_error"
    /\ "cancel_refused_delete" \in resp.cases
    /\ \E d \in DOMAIN docs :
          /\ docs[d].run = DONE /\ docs[d].chunk_num > 0
          /\ \E t \in tasks : t.doc_id = d
          /\ \E e \in index : e.doc_id = d

\* C34: a run request or an rm request that names a document the caller has
\* no access to is answered with the authorization error and leaves every
\* document, Task row, queue unit, index entry, linkage, file record and blob
\* as it was.
C34_RefusedBeforeAnyWrite ==
    /\ \A req \in RunReqs :
          ~Authorized(Store, req) =>
              LET r == RunHandler(Store, req) IN
              r.code = "auth_error" /\ r.S = Store
    /\ \A req \in RmReqs :
          ~Authorized(Store, req) =>
              LET r == RmHandler(Store, req) IN
              r.code = "auth_error" /\ r.S = Store

\* A request naming a document of the caller that has Task rows, and a
\* document the caller has no access to, has been refused.
C34_Witness ==
    /\ resp.op \in {"run", "rm"} /\ resp.code = "auth_error"
    /\ "refused_with_state" \in resp.cases
    /\ tasks # {}

\* ------------------------------------------------ independence of the kinds
\* C35: in every reachable state, for every knowledge base with documents and
\* every kind whose own pointer names no running Task, a dispatch of that
\* kind is accepted whatever Tasks of the other two kinds are running; and a
\* dispatch or an unbind of one kind leaves the pointers and the completion
\* timestamps of the other two kinds as they were.
C35_KindsAreIndependent ==
    \A k \in DOMAIN kbs, ty \in AggKinds :
        /\ \A saved \in BOOLEAN :
              LET r == RunAggregate(Store, k, ty, saved) IN
              /\ (~Busy(k, ty) /\ get_by_kb_id(Store, k) # {}) => r.code = "ok"
              /\ \A other \in AggKinds \ {ty} :
                    /\ r.S.kbs[k][PointerField(other)] = kbs[k][PointerField(other)]
                    /\ r.S.kbs[k][FinishField(other)] = kbs[k][FinishField(other)]
        /\ \A pipeline_task_type \in {GRAPH_RAG, RAPTOR, MINDMAP} :
              LET r == delete_kb_task(Store, k, pipeline_task_type) IN
              \A other \in AggKinds \ {UnbindKind(pipeline_task_type)} :
                    /\ r.S.kbs[k][PointerField(other)] = kbs[k][PointerField(other)]
                    /\ r.S.kbs[k][FinishField(other)] = kbs[k][FinishField(other)]

\* A dispatch has just been accepted on a knowledge base where another kind
\* is running: the knowledge base holds two pointers to two Tasks in
\* progress, the one just returned and the other kind's.
C35_Witness ==
    /\ resp.op = "dispatch" /\ resp.code = "ok"
    /\ \E k \in DOMAIN kbs, ty \in AggKinds, other \in AggKinds :
          /\ ty # other
          /\ kbs[k][PointerField(ty)] = resp.task_id
          /\ Busy(k, ty) /\ Busy(k, other)
          /\ kbs[k][PointerField(other)] # resp.task_id

\* -------------------------------------------------- Task rows after a reset
\* C36: in every reachable state, a parser change that resets its document
\* (the request is served and the parser or the pipeline is another one)
\* leaves no Task row of that document in the ledger, whatever the
\* document's run-state was.
C36_NoTaskRowAfterParserReset ==
    \A req \in ParserReqs :
        LET r == change_parser(Store, req) IN
        (r.code = "ok" /\ r.S # Store) =>
            /\ r.S.docs[req.doc_id].run = UNSTART
            /\ \A t \in r.S.tasks : t.doc_id # req.doc_id

\* ---------------------------------------------------------------------------
\* run and rm served by several processes: each request for one document goes
\* through the handler's reads and writes one store call at a time, with no
\* lock between them.  A process keeps the row it read (doc), as the handler
\* does, and after its last step the answer it gave.

\* The request a process is serving or has answered, and what it holds of it.
Flight(pc, ty, req, doc, addr, code, overlapped, had_tasks) ==
    [pc |-> pc, kb_id |-> "", ty |-> ty, task_id |-> NoTaskId, req |-> req, doc |-> doc,
     addr |-> addr, code |-> code, overlapped |-> overlapped, had_tasks |-> had_tasks]

NoRow == [kb_id |-> ""]
NoAddr == [bucket |-> "", name |-> ""]

\* run, lines 529-546: the access check, the tenant and the document row.
RunReadStep(S, req) ==
    LET id == req.doc_ids[1] IN
    IF ~accessible(S, id, req.user)
    THEN [code |-> "auth_error", msg |-> "No authorization.", S |-> S, doc |-> NoRow]
    ELSE IF get_tenant_id(S, id) = NoTenant
    THEN [code |-> "data_error", msg |-> "Tenant not found!", S |-> S, doc |-> NoRow]
    ELSE IF ~DocExists(S, id)
    THEN [code |-> "data_error", msg |-> "Document not found!", S |-> S, doc |-> NoRow]
    ELSE [code |-> "pass", msg |-> "", S |-> S, doc |-> S.docs[id]]

\* run, lines 548-556: the cancel branch and the rollback decide on the row
\* read at line 545; the rollback and the overwrite act on the stored row, if
\* it is still there.
RunWriteStep(S, req, doc) ==
    LET id == req.doc_ids[1] IN
    IF req.run = CANCEL /\ doc.run # RUNNING
    THEN [code |-> "data_error", msg |-> "Cannot cancel a task that is not in RUNNING status",
          S |-> S]
    ELSE LET S1 == RunCancel(S, id, req)
             S2 == IF req.delete /\ req.run = RUNNING /\ doc.run = DONE /\ DocExists(S1, id)
                   THEN clear_chunk_num_when_rerun(S1, id)
                   ELSE S1
         IN [code |-> "pass", msg |-> "", S |-> update_by_id(S2, id, RunInfo(req))]

\* run, lines 557-560.
RunDeleteStep(S, req, doc) ==
    [code |-> "pass", msg |-> "", S |-> RunDelete(S, req.doc_ids[1], req, doc)]

\* get_storage_address finds an address: the linked file's, or the stored
\* document row's; without either the lookup raises.
AddressKnown(S, id) ==
    \/ DocExists(S, id)
    \/ LET fs == {f \in S.files : \E l \in S.f2d : l.document_id = id /\ l.file_id = f.id}
       IN fs # {} /\ \A f \in fs : f.source_type # FS_KNOWLEDGEBASE

\* run, lines 562-580: the dispatch, from the row read at line 545.  The Task
\* row and the unit are written for the id whether or not its row is stored.
RunDispatchStep(S, req, doc) ==
    LET id == req.doc_ids[1]
        tid == S.next_id + 1
        row == [id |-> tid, doc_id |-> id, progress |-> 0, kind |-> "parse",
                doc_ids |-> {id}, kb_id |-> doc.kb_id]
    IN IF req.run # RUNNING \/ (doc.parser_id = TABLE /\ doc.kb_id = "")
       THEN [code |-> "ok", msg |-> "", S |-> S]
       ELSE LET S1 == RunTable(S, <<>>, doc).S IN
            IF doc.pipeline_id # ""
            THEN [code |-> "ok", msg |-> "",
                  S |-> [S1 EXCEPT !.next_id = tid, !.tasks = @ \cup {row},
                                   !.queue = @ \cup {[q |-> "pipeline", task_id |-> tid,
                                                      doc_id |-> id, bucket |-> doc.pipeline_id,
                                                      name |-> ""]}]]
            ELSE IF ~AddressKnown(S1, id)
            THEN [code |-> "server_error", msg |-> "get_storage_address", S |-> S1]
            ELSE LET a == get_storage_address(S1, id) IN
                 [code |-> "ok", msg |-> "",
                  S |-> [S1 EXCEPT !.next_id = tid, !.tasks = @ \cup {row},
                                   !.queue = @ \cup {[q |-> "parse", task_id |-> tid,
                                                      doc_id |-> id, bucket |-> a.bucket,
                                                      name |-> a.name]}]]

\* rm, lines 474-491: the access check, the knowledge-base folder, the
\* document row, the tenant and the storage address.
RmReadStep(S, req) ==
    LET id == req.doc_ids[1] IN
    IF ~accessible(S, id, req.user)
    THEN [code |-> "auth_error", msg |-> "No authorization.", S |-> S, doc |-> NoRow,
          addr |-> NoAddr]
    ELSE LET S1 == init_knowledgebase_docs(S, req.user) IN
         IF ~DocExists(S1, id)
         THEN [code |-> "data_error", msg |-> "Document not found!", S |-> S1, doc |-> NoRow,
               addr |-> NoAddr]
         ELSE IF get_tenant_id(S1, id) = NoTenant
         THEN [code |-> "data_error", msg |-> "Tenant not found!", S |-> S1, doc |-> NoRow,
               addr |-> NoAddr]
         ELSE [code |-> "pass", msg |-> "", S |-> S1, doc |-> S1.docs[id],
               addr |-> get_storage_address(S1, id)]

\* Faulty variant: the Task rows are not deleted.
RmTasksStep_Skipped(S, req) == [code |-> "pass", msg |-> "", S |-> S]

\* rm, line 494.
RmTasksStep(S, req) == [code |-> "pass", msg |-> "", S |-> RmTasks(S, req.doc_ids[1])]

\* rm, lines 495-496: a row that is no longer there is not removed.
RmRemoveStep(S, req) ==
    IF ~DocExists(S, req.doc_ids[1])
    THEN [code |-> "data_error", msg |-> "Database error (Document removal)!", S |-> S]
    ELSE [code |-> "pass", msg |-> "", S |-> remove_document(S, req.doc_ids[1])]

\* rm, lines 498-514: the file record, the linkage, the blob, the field map.
RmFilesStep(S, req, doc, addr) ==
    LET S1 == RmFiles(S, req.doc_ids[1], addr) IN
    [code |-> "ok", msg |-> "", S |-> RmTable(S1, <<>>, doc).S]

\* The processes between two requests.
AtRest(p) == inflight[p].pc \in {"idle", "answered"}

\* The other processes in the middle of a request for the document.
Meanwhile(p, id) ==
    {q \in Procs \ {p} : ~AtRest(q) /\ inflight[q].req.doc_ids[1] = id}

\* The run requests that have not dispatched yet.
RunsAhead == {q \in Procs : ~AtRest(q) /\ inflight[q].ty = "run"}

MixReqs(ty) ==
    IF ty = "run"
    THEN [doc_ids : {<<d>> : d \in DocIds}, run : {RUNNING, CANCEL}, delete : BOOLEAN,
          user : {"u1"}]
    ELSE [doc_ids : {<<d>> : d \in DocIds}, user : {"u1"}]

\* Process p takes the request and does its first step; the requests for the
\* same document that are under way have met another one from now on.
Begin(p, ty, req, r) ==
    LET id == req.doc_ids[1]
        others == IF r.code = "pass" THEN Meanwhile(p, id) ELSE {}
    IN inflight' =
         [q \in Procs |->
            IF q = p
            THEN Flight(IF r.code = "pass" THEN "read" ELSE "answered", ty, req, r.doc,
                        IF ty = "rm" THEN r.addr ELSE NoAddr, r.code, others # {},
                        \E t \in tasks : t.doc_id = id /\ t.progress = 0)
            ELSE IF q \in others THEN [inflight[q] EXCEPT !.overlapped = TRUE]
            ELSE inflight[q]]

\* Process p has done a step: it moves on, or answers and lets go of the row
\* it held.
Move(p, r, pc) ==
    inflight' = [inflight EXCEPT ![p] =
                    IF r.code = "pass" THEN [@ EXCEPT !.pc = pc]
                    ELSE [@ EXCEPT !.pc = "answered", !.code = r.code, !.doc = NoRow,
                                   !.addr = NoAddr]]

Stepped(r) ==
    /\ Commit(r.S)
    /\ resp' = [NoResp EXCEPT !.op = "step", !.code = r.code, !.msg = r.msg]
    /\ UNCHANGED <<kg_hits, kg_resp>>

MixRunRead ==
    \E p \in Procs, req \in MixReqs("run") :
      \E r \in {RunReadStep(Store, req)} :
        /\ AtRest(p)
        /\ next_id + Cardinality(RunsAhead) < MaxTasks
        /\ Begin(p, "run", req, r)
        /\ Stepped(r)

MixRunWrite ==
    \E p \in Procs :
        /\ inflight[p].pc = "read" /\ inflight[p].ty = "run"
        /\ \E r \in {RunWriteStep(Store, inflight[p].req, inflight[p].doc)} :
              Move(p, r, "written") /\ Stepped(r)

MixRunDelete ==
    \E p \in Procs :
        /\ inflight[p].pc = "written" /\ inflight[p].ty = "run"
        /\ \E r \in {RunDeleteStep(Store, inflight[p].req, inflight[p].doc)} :
              Move(p, r, "cleared") /\ Stepped(r)

MixRunDispatch ==
    \E p \in Procs :
        /\ inflight[p].pc = "cleared" /\ inflight[p].ty = "run"
        /\ \E r \in {RunDispatchStep(Store, inflight[p].req, inflight[p].doc)} :
              Move(p, r, "answered") /\ Stepped(r)

MixRmRead ==
    \E p \in Procs, req \in MixReqs("rm") :
      \E r \in {RmReadStep(Store, req)} :
        /\ AtRest(p)
        /\ Begin(p, "rm", req, r)
        /\ Stepped(r)

MixRmTasks ==
    \E p \in Procs :
        /\ inflight[p].pc = "read" /\ inflight[p].ty = "rm"
        /\ \E r \in {RmTasksStep(Store, inflight[p].req)} :
              Move(p, r, "tasks_gone") /\ Stepped(r)

MixRmRemove ==
    \E p \in Procs :
        /\ inflight[p].pc = "tasks_gone" /\ inflight[p].ty = "rm"
        /\ \E r \in {RmRemoveStep(Store, inflight[p].req)} :
              Move(p, r, "removed") /\ Stepped(r)

MixRmFiles ==
    \E p \in Procs :
        /\ inflight[p].pc = "removed" /\ inflight[p].ty = "rm"
        /\ \E r \in {RmFilesStep(Store, inflight[p].req, inflight[p].doc, inflight[p].addr)} :
              Move(p, r, "answered") /\ Stepped(r)

InitMix ==
    /\ InitDoc

NextMix ==
    \/ MixRunRead \/ MixRunWrite \/ MixRunDelete \/ MixRunDispatch
    \/ MixRmRead \/ MixRmTasks \/ MixRmRemove \/ MixRmFiles
    \/ Worker

SpecMix == InitMix /\ [][NextMix]_vars

\* A unit counts as queued while its Task row is in the ledger: deleting the
\* row is how a unit is taken off the queue, the worker drops what is left.
Dangling(d) ==
    \/ \E t \in tasks : t.doc_id = d
    \/ \E u \in queue : u.doc_id = d /\ \E t \in tasks : t.id = u.task_id

====
